---- MODULE Spec2Model ----
(***************************************************************************)
(* A model of langchain_scrapingbee/tools.py: the parameter coercer        *)
(* (str_to_dict_validator), the flattener (stringify_nested_objects), the  *)
(* image classifier (_is_base64_image) and the record loop of the image    *)
(* search (_handle_image_search).                                          *)
(*                                                                         *)
(* Python strings are sequences of characters; a character is a TLA+       *)
(* string of length one, except the three characters below that have no      *)
(* ASCII spelling.  Python values are tagged records [t |-> type, v |-> _].*)
(***************************************************************************)
EXTENDS Integers, Sequences, FiniteSets, TLC

VARIABLES
    op,         \* which routine this behaviour runs
    pc,         \* position inside the routine
    arg,        \* the routine's argument (a Python value)
    ret,        \* the value returned, once pc = "done"
    exc,        \* the exception that left the routine, once pc = "raised"
    tried,      \* coercer: the strategies whose try block has been entered, in order
    items,      \* flattener: the (key, value) pairs still to visit
    acc,        \* flattener: processed_params so far
    base64_images,  \* image search: records classified as base64
    image_links,    \* image search: records classified as links
    saved_images,   \* image search: one result string kind per base64 record
    fs,         \* the file system: the directories and the files, with their contents
    net,        \* the outbound requests made so far, in order
    call,       \* the arguments of the tool invocation
    response,   \* what the outbound request came back with
    folder_path,    \* the output directory of the invocation
    links_result    \* image search: what _save_image_links returned

\* what lies outside the routine: the disk, the network, the invocation
world == <<fs, net, call, response, folder_path, links_result>>

vars == <<op, pc, arg, ret, exc, tried, items, acc, base64_images, image_links, saved_images,
          fs, net, call, response, folder_path, links_result>>

----------------------------------------------------------------------------
(* Characters *)

SQ == "'"
DQ == "\""
Sup2 == "U+00B2"        \* SUPERSCRIPT TWO: str.isdigit() is true, int() rejects it
Surrogate == "U+D800"   \* a lone surrogate: no text encoding of stdout can encode it
EAcute == "U+00E9"      \* a non-ASCII letter

DecDigits == {"0", "1", "2"}
Letters == {"a", "e", "r", "t", "u", "T", "A", "Q"}
Punct == {"{", "}", "[", "]", SQ, DQ, ":", ",", "=", "&", "/", ";", "!"}
Space == " "
Alphabet == DecDigits \cup Letters \cup Punct \cup {Space, Sup2, Surrogate, EAcute}

----------------------------------------------------------------------------
(* Python values *)

StrV(s) == [t |-> "str", v |-> s]
IntV(n) == [t |-> "int", v |-> n]
FloatV(n) == [t |-> "float", v |-> n]       \* only integral floats arise (1e1)
BoolV(b) == [t |-> "bool", v |-> b]
NoneV == [t |-> "none", v |-> 0]
DictV(pairs) == [t |-> "dict", v |-> pairs]     \* <<key, value>> pairs, insertion order
ListV(xs) == [t |-> "list", v |-> xs]
SetV(xs) == [t |-> "set", v |-> xs]             \* elements, pairwise unequal
TupleV(xs) == [t |-> "tuple", v |-> xs]

IsStr(x) == x.t = "str"
IsDict(x) == x.t = "dict"
IsNumber(x) == x.t \in {"int", "float", "bool"}
NumVal(x) == IF x.t = "bool" THEN (IF x.v THEN 1 ELSE 0) ELSE x.v

\* Python's ==, on the values that can be dict keys or set elements here
PyEq(x, y) ==
    IF IsNumber(x) /\ IsNumber(y) THEN NumVal(x) = NumVal(y)
    ELSE x.t = y.t /\ x.v = y.v

Hashable(x) == x.t \notin {"dict", "list", "set"}

\* a disk with nothing on it, no invocation, no response
NoFiles == [dirs |-> {}, files |-> <<>>]
NoCall == [tool |-> "none"]
NoResponse == [status |-> "none"]

\* d[k] = val on an insertion-ordered dict: an existing key keeps its place (and its
\* first spelling), a new key goes last
DictSet(pairs, k, val) ==
    IF \E i \in 1..Len(pairs) : PyEq(pairs[i][1], k)
    THEN [i \in 1..Len(pairs) |-> IF PyEq(pairs[i][1], k) THEN <<pairs[i][1], val>> ELSE pairs[i]]
    ELSE Append(pairs, <<k, val>>)

RECURSIVE DictFromPairs(_, _)
DictFromPairs(kvs, pairs) ==
    IF kvs = <<>> THEN pairs
    ELSE DictFromPairs(Tail(kvs), DictSet(pairs, Head(kvs)[1], Head(kvs)[2]))

SetAdd(xs, x) == IF \E i \in 1..Len(xs) : PyEq(xs[i], x) THEN xs ELSE Append(xs, x)

RECURSIVE SetFromSeq(_, _)
SetFromSeq(elts, xs) ==
    IF elts = <<>> THEN xs ELSE SetFromSeq(Tail(elts), SetAdd(xs, Head(elts)))

----------------------------------------------------------------------------
(* Python str methods *)

\* s[i-1:j] in Python's terms: the characters at positions i..j, clamped to the string
Slice(s, i, j) ==
    LET lo == IF i < 1 THEN 1 ELSE i
        hi == IF j > Len(s) THEN Len(s) ELSE j
    IN [k \in 1..(hi - lo + 1) |-> s[lo + k - 1]]

StartsWith(s, p) == Len(p) <= Len(s) /\ Slice(s, 1, Len(p)) = p
EndsWith(s, p) == Len(p) <= Len(s) /\ Slice(s, Len(s) - Len(p) + 1, Len(s)) = p

\* s.find(sub, from i), 1-based; 0 when absent
FindFrom(s, sub, i) ==
    LET hits == {j \in i..(Len(s) - Len(sub) + 1) : Slice(s, j, j + Len(sub) - 1) = sub}
    IN IF hits = {} THEN 0 ELSE CHOOSE j \in hits : \A k \in hits : j <= k
Find(s, sub) == FindFrom(s, sub, 1)
Contains(s, sub) == Find(s, sub) # 0

IsSpace(c) == c = Space

\* s.strip()
Strip(s) ==
    LET keep == {i \in 1..Len(s) : ~IsSpace(s[i])}
    IN IF keep = {} THEN <<>>
       ELSE Slice(s, CHOOSE i \in keep : \A k \in keep : i <= k,
                      CHOOSE i \in keep : \A k \in keep : i >= k)

\* s.lstrip(" \t")
LStrip(s) ==
    LET keep == {i \in 1..Len(s) : ~IsSpace(s[i])}
    IN IF keep = {} THEN <<>>
       ELSE Slice(s, CHOOSE i \in keep : \A k \in keep : i <= k, Len(s))

\* s.split(sep) for a one-character separator
RECURSIVE Split(_, _)
Split(s, sep) ==
    LET j == Find(s, <<sep>>)
    IN IF j = 0 THEN <<s>> ELSE <<Slice(s, 1, j - 1)>> \o Split(Slice(s, j + 1, Len(s)), sep)

\* s.split(sep, 1)[1] for a separator that occurs in s
AfterFirst(s, sep) == Slice(s, Find(s, sep) + Len(sep), Len(s))
BeforeFirst(s, sep) == Slice(s, 1, Find(s, sep) - 1)

LowerChar(c) ==
    CASE c = "T" -> "t" [] c = "A" -> "a" [] c = "Q" -> "q" [] OTHER -> c
Lower(s) == [i \in 1..Len(s) |-> LowerChar(s[i])]

\* str.isdigit(): non-empty and every character has the Unicode property Digit
IsDigit(s) == s # <<>> /\ \A i \in 1..Len(s) : s[i] \in DecDigits \cup {Sup2}
\* the strings int() accepts among those isdigit() accepts
IsDecimal(s) == s # <<>> /\ \A i \in 1..Len(s) : s[i] \in DecDigits

DigitVal(c) == CASE c = "0" -> 0 [] c = "1" -> 1 [] c = "2" -> 2 [] OTHER -> 0
RECURSIVE DecimalValue(_)
DecimalValue(s) ==
    IF s = <<>> THEN 0 ELSE 10 * DecimalValue(Slice(s, 1, Len(s) - 1)) + DigitVal(s[Len(s)])

RECURSIVE Pow10(_)
Pow10(n) == IF n = 0 THEN 1 ELSE 10 * Pow10(n - 1)

----------------------------------------------------------------------------
(* Outcomes of a call: a value returned or an exception raised *)

Returned(x) == [ok |-> TRUE, val |-> x, exc |-> "", pos |-> 0]
Raised(e) == [ok |-> FALSE, val |-> NoneV, exc |-> e, pos |-> 0]
\* a parser's partial result: the value read and the position after it
At(x, i) == [ok |-> TRUE, val |-> x, exc |-> "", pos |-> i]

----------------------------------------------------------------------------
(* json.loads on a str: json.decoder.JSONDecoder.decode with the Python        *)
(* scanner's grammar, restricted to Alphabet (no backslash, sign, point, or    *)
(* the letters of null/false/NaN/Infinity, so those forms cannot be written).  *)

\* WHITESPACE.match(s, i).end()
RECURSIVE SkipWs(_, _)
SkipWs(s, i) == IF i <= Len(s) /\ IsSpace(s[i]) THEN SkipWs(s, i + 1) ELSE i

\* the end of the longest run of decimal digits starting at i (i itself when none)
RECURSIVE DigitsEnd(_, _)
DigitsEnd(s, i) == IF i <= Len(s) /\ s[i] \in DecDigits THEN DigitsEnd(s, i + 1) ELSE i

\* NUMBER_RE = (-?(?:0|[1-9]\d*))(\.\d+)?([eE][-+]?\d+)? matched at i, where s[i] is a digit
JsonNumber(s, i) ==
    LET intEnd == IF s[i] = "0" THEN i + 1 ELSE DigitsEnd(s, i)
        hasExp == intEnd <= Len(s) /\ s[intEnd] = "e" /\ DigitsEnd(s, intEnd + 1) > intEnd + 1
        expEnd == DigitsEnd(s, intEnd + 1)
        int == DecimalValue(Slice(s, i, intEnd - 1))
    IN IF hasExp
       THEN At(FloatV(int * Pow10(DecimalValue(Slice(s, intEnd + 1, expEnd - 1)))), expEnd)
       ELSE At(IntV(int), intEnd)

\* py_scanstring from the character after the opening quote
JsonString(s, i) ==
    LET j == FindFrom(s, <<DQ>>, i)
    IN IF j = 0 THEN Raised("JSONDecodeError") ELSE At(StrV(Slice(s, i, j - 1)), j + 1)

RECURSIVE JsonScanOnce(_, _)
RECURSIVE JsonObjectPairs(_, _, _)
RECURSIVE JsonArrayItems(_, _, _)

\* JSONObject after '{' and whitespace, positioned at a key's opening quote
JsonObjectPairs(s, i, kvs) ==
    IF ~(i <= Len(s) /\ s[i] = DQ) THEN Raised("JSONDecodeError")
    ELSE LET k == JsonString(s, i + 1)
         IN IF ~k.ok THEN k
            ELSE LET c == SkipWs(s, k.pos)
                 IN IF ~(c <= Len(s) /\ s[c] = ":") THEN Raised("JSONDecodeError")
                    ELSE LET x == JsonScanOnce(s, SkipWs(s, c + 1))
                         IN IF ~x.ok THEN x
                            ELSE LET e == SkipWs(s, x.pos)
                                     kvs2 == Append(kvs, <<k.val, x.val>>)
                                 IN IF e > Len(s) THEN Raised("JSONDecodeError")
                                    ELSE IF s[e] = "}" THEN At(DictV(DictFromPairs(kvs2, <<>>)), e + 1)
                                    ELSE IF s[e] = "," THEN JsonObjectPairs(s, SkipWs(s, e + 1), kvs2)
                                    ELSE Raised("JSONDecodeError")

\* JSONArray after '[' and whitespace, positioned at a value
JsonArrayItems(s, i, xs) ==
    LET x == JsonScanOnce(s, i)
    IN IF ~x.ok THEN x
       ELSE LET e == SkipWs(s, x.pos)
                xs2 == Append(xs, x.val)
            IN IF e > Len(s) THEN Raised("JSONDecodeError")
               ELSE IF s[e] = "]" THEN At(ListV(xs2), e + 1)
               ELSE IF s[e] = "," THEN JsonArrayItems(s, SkipWs(s, e + 1), xs2)
               ELSE Raised("JSONDecodeError")

\* py_make_scanner's _scan_once
JsonScanOnce(s, i) ==
    IF i > Len(s) THEN Raised("JSONDecodeError")
    ELSE IF s[i] = DQ THEN JsonString(s, i + 1)
    ELSE IF s[i] = "{" THEN
        LET j == SkipWs(s, i + 1)
        IN IF j <= Len(s) /\ s[j] = "}" THEN At(DictV(<<>>), j + 1)
           ELSE JsonObjectPairs(s, j, <<>>)
    ELSE IF s[i] = "[" THEN
        LET j == SkipWs(s, i + 1)
        IN IF j <= Len(s) /\ s[j] = "]" THEN At(ListV(<<>>), j + 1)
           ELSE JsonArrayItems(s, j, <<>>)
    ELSE IF Slice(s, i, i + 3) = <<"t", "r", "u", "e">> THEN At(BoolV(TRUE), i + 4)
    ELSE IF s[i] \in DecDigits THEN JsonNumber(s, i)
    ELSE Raised("JSONDecodeError")

\* json.loads(s): one value, surrounded by whitespace only
JsonLoads(s) ==
    LET x == JsonScanOnce(s, SkipWs(s, 1))
    IN IF ~x.ok THEN Raised("JSONDecodeError")
       ELSE IF SkipWs(s, x.pos) # Len(s) + 1 THEN Raised("JSONDecodeError")
       ELSE Returned(x.val)

----------------------------------------------------------------------------
(* ast.literal_eval on a str (CPython 3.10+): the expressions over Alphabet    *)
(* that compile and convert.  Every other string raises SyntaxError,           *)
(* ValueError or TypeError; the coercer's handler catches all three alike, so  *)
(* the model does not order them when a string has more than one defect.       *)

Quotes == {SQ, DQ}
StringPrefixes == {"r", "u"}
IdentChars == Letters \cup DecDigits \cup {EAcute}

\* a string literal starts at i: a quote, or a one-letter prefix and a quote
StringStart(s, i) ==
    /\ i <= Len(s)
    /\ \/ s[i] \in Quotes
       \/ s[i] \in StringPrefixes /\ i + 1 <= Len(s) /\ s[i + 1] \in Quotes

\* one string token whose opening quote is at i: triple-quoted or single-quoted
PyStringToken(s, i) ==
    LET q == s[i]
    IN IF Slice(s, i, i + 2) = <<q, q, q>>
       THEN LET j == FindFrom(s, <<q, q, q>>, i + 3)
            IN IF j = 0 THEN Raised("SyntaxError") ELSE At(Slice(s, i + 3, j - 1), j + 3)
       ELSE LET j == FindFrom(s, <<q>>, i + 1)
            IN IF j = 0 THEN Raised("SyntaxError") ELSE At(Slice(s, i + 1, j - 1), j + 1)

\* adjacent string literals are concatenated
RECURSIVE PyStrings(_, _, _)
PyStrings(s, i, sofar) ==
    LET tok == PyStringToken(s, IF s[i] \in Quotes THEN i ELSE i + 1)
    IN IF ~tok.ok THEN tok
       ELSE LET k == SkipWs(s, tok.pos)
            IN IF StringStart(s, k) THEN PyStrings(s, k, sofar \o tok.val)
               ELSE At(StrV(sofar \o tok.val), tok.pos)

\* a decimal integer or a float with an exponent, s[i] a digit
PyNumber(s, i) ==
    LET digEnd == DigitsEnd(s, i)
        hasExp == digEnd <= Len(s) /\ s[digEnd] = "e" /\ DigitsEnd(s, digEnd + 1) > digEnd + 1
        expEnd == DigitsEnd(s, digEnd + 1)
        digits == Slice(s, i, digEnd - 1)
    IN IF hasExp
       THEN At(FloatV(DecimalValue(digits) * Pow10(DecimalValue(Slice(s, digEnd + 1, expEnd - 1)))), expEnd)
       ELSE IF s[i] = "0" /\ \E k \in 1..Len(digits) : digits[k] # "0"
       THEN Raised("SyntaxError")      \* leading zeros in a decimal integer
       ELSE At(IntV(DecimalValue(digits)), digEnd)

RECURSIVE IdentEnd(_, _)
IdentEnd(s, i) == IF i <= Len(s) /\ s[i] \in IdentChars THEN IdentEnd(s, i + 1) ELSE i

RECURSIVE PyAtom(_, _)
RECURSIVE PyDictRest(_, _, _)
RECURSIVE PySeqRest(_, _, _, _)

\* ast.literal_eval's _convert of a Dict node: dict(zip(keys, values))
MakeDict(kvs, i) ==
    IF \E k \in 1..Len(kvs) : ~Hashable(kvs[k][1]) THEN Raised("TypeError")
    ELSE At(DictV(DictFromPairs(kvs, <<>>)), i)

\* _convert of a Set node (close = "}") or a List node (close = "]")
MakeSeq(close, xs, i) ==
    IF close = "]" THEN At(ListV(xs), i)
    ELSE IF \E k \in 1..Len(xs) : ~Hashable(xs[k]) THEN Raised("TypeError")
    ELSE At(SetV(SetFromSeq(xs, <<>>)), i)

\* inside a dict display, after a value: '}' or ',' and then '}' or another key: value
PyDictRest(s, i, kvs) ==
    LET e == SkipWs(s, i)
    IN IF e > Len(s) THEN Raised("SyntaxError")
       ELSE IF s[e] = "}" THEN MakeDict(kvs, e + 1)
       ELSE IF s[e] # "," THEN Raised("SyntaxError")
       ELSE LET j == SkipWs(s, e + 1)
            IN IF j <= Len(s) /\ s[j] = "}" THEN MakeDict(kvs, j + 1)
               ELSE LET k == PyAtom(s, j)
                    IN IF ~k.ok THEN k
                       ELSE LET c == SkipWs(s, k.pos)
                            IN IF ~(c <= Len(s) /\ s[c] = ":") THEN Raised("SyntaxError")
                               ELSE LET x == PyAtom(s, SkipWs(s, c + 1))
                                    IN IF ~x.ok THEN x
                                       ELSE PyDictRest(s, x.pos, Append(kvs, <<k.val, x.val>>))

\* inside a set or list display, after an element
PySeqRest(s, i, close, xs) ==
    LET e == SkipWs(s, i)
    IN IF e > Len(s) THEN Raised("SyntaxError")
       ELSE IF s[e] = close THEN MakeSeq(close, xs, e + 1)
       ELSE IF s[e] # "," THEN Raised("SyntaxError")
       ELSE LET j == SkipWs(s, e + 1)
            IN IF j <= Len(s) /\ s[j] = close THEN MakeSeq(close, xs, j + 1)
               ELSE LET x == PyAtom(s, j)
                    IN IF ~x.ok THEN x ELSE PySeqRest(s, x.pos, close, Append(xs, x.val))

\* one expression starting at i: a constant or a display
PyAtom(s, i) ==
    IF i > Len(s) THEN Raised("SyntaxError")
    ELSE IF StringStart(s, i) THEN PyStrings(s, i, <<>>)
    ELSE IF s[i] \in DecDigits THEN PyNumber(s, i)
    ELSE IF s[i] \in IdentChars THEN
        IF Slice(s, i, IdentEnd(s, i) - 1) = <<"T", "r", "u", "e">>
        THEN At(BoolV(TRUE), IdentEnd(s, i))
        ELSE Raised("ValueError")       \* a Name node: malformed node or string
    ELSE IF s[i] = "[" THEN
        LET j == SkipWs(s, i + 1)
        IN IF j <= Len(s) /\ s[j] = "]" THEN At(ListV(<<>>), j + 1)
           ELSE LET x == PyAtom(s, j)
                IN IF ~x.ok THEN x ELSE PySeqRest(s, x.pos, "]", <<x.val>>)
    ELSE IF s[i] = "{" THEN
        LET j == SkipWs(s, i + 1)
        IN IF j <= Len(s) /\ s[j] = "}" THEN At(DictV(<<>>), j + 1)
           ELSE LET x == PyAtom(s, j)
                IN IF ~x.ok THEN x
                   ELSE LET c == SkipWs(s, x.pos)
                        IN IF c <= Len(s) /\ s[c] = ":"
                           THEN LET y == PyAtom(s, SkipWs(s, c + 1))
                                IN IF ~y.ok THEN y
                                   ELSE PyDictRest(s, y.pos, <<<<x.val, y.val>>>>)
                           ELSE PySeqRest(s, x.pos, "}", <<x.val>>)
    ELSE Raised("SyntaxError")

\* the whole source in eval mode: expressions separated by commas make a tuple
RECURSIVE PyTestList(_, _, _)
PyTestList(s, i, xs) ==
    LET x == PyAtom(s, i)
    IN IF ~x.ok THEN x
       ELSE LET e == SkipWs(s, x.pos)
                xs2 == Append(xs, x.val)
            IN IF e > Len(s) THEN Returned(IF Len(xs2) = 1 THEN x.val ELSE TupleV(xs2))
               ELSE IF s[e] # "," THEN Raised("SyntaxError")
               ELSE IF SkipWs(s, e + 1) > Len(s) THEN Returned(TupleV(xs2))
               ELSE PyTestList(s, SkipWs(s, e + 1), xs2)

\* ast.literal_eval(node_or_string): parse(node_or_string.lstrip(" \t"), mode='eval')
LiteralEval(s) ==
    IF \E i \in 1..Len(s) : s[i] = Surrogate
    THEN Raised("ValueError")   \* UnicodeEncodeError, a ValueError: the source cannot be encoded
    ELSE PyTestList(LStrip(s), 1, <<>>)

----------------------------------------------------------------------------
(* Bounds and inputs *)

MaxLen == 3         \* longest string enumerated exhaustively

\* the characters the exhaustive strings are built from
ShortAlphabet == {"{", "}", SQ, DQ, ":", "=", "&", Space, "1", "a"}

StringsUpTo(alphabet, n) == UNION {[1..k -> alphabet] : k \in 0..n}

\* longer strings: the repository's tests and documentation, and variations
SampleStrings ==
    { <<"{", DQ, "a", DQ, ":", Space, DQ, "a", DQ, "}">>,              \* {"a": "a"}
      <<"{", DQ, "a", DQ, ":", Space, "1", "}">>,                      \* {"a": 1}
      <<"{", DQ, "a", DQ, ":", "t", "r", "u", "e", ",", DQ, "a", DQ, ":", "[", "1", ",", "2", "]", "}">>,
      <<"{", SQ, "a", SQ, ":", Space, "T", "r", "u", "e", "}">>,       \* {'a': True}
      <<"{", SQ, "a", SQ, ":", "1", ",", SQ, "a", SQ, ":", "2", ",", "}">>,
      <<"{", "1", ",", Space, "2", "}">>,                              \* {1, 2}
      <<"{", "1", ":", "[", "{", "}", "]", "}">>,                      \* {1:[{}]}
      <<"{", "[", "1", "]", ":", "1", "}">>,                           \* {[1]:1}
      <<"{", "1", "}", ",", "{", "2", "}">>,                           \* {1},{2}
      <<"{", "1", ",", "T", "r", "u", "e", ",", "1", "e", "0", "}">>,  \* {1,True,1e0}
      <<"{", "u", SQ, "a", SQ, Space, "r", DQ, "a", DQ, ":", SQ, SQ, SQ, "a", SQ, SQ, SQ, "}">>,
      <<"a", "=", "2", "0", "0", "0", "&", "e", "=", "t", "r", "u", "e">>,     \* a=2000&e=true
      <<"e", "=", "T", "r", "u", "e", "&", "a", "=", "0", "1", "&", "a", "=", "a", "=", "1">>,
      <<"a", "=", "1", "&", "a", "=", "2", "&", "t">>,                 \* a=1&a=2&t
      <<"a", "=", Sup2>>,                                              \* a=<superscript 2>
      <<"{", SQ, "a", SQ, "=", "1", "}">>,                             \* {'a'=1}
      <<"a", "t", Space, "a", "t", Space, "a">>,                       \* not parseable
      <<"[", "1", ",", Space, "2", "]">>,                              \* [1, 2]
      <<"t", "r", "u", "e">>,
      <<"1", "e", "2">>,
      <<Surrogate>>,
      <<"a", "=", Surrogate>>,
      <<DQ, Surrogate, DQ>>,
      <<"{", SQ, Surrogate, SQ, "}">>,
      <<EAcute, "=", EAcute>> }

CoerceStrings == StringsUpTo(ShortAlphabet, MaxLen) \cup SampleStrings

\* arguments that are not strings
NonStrings ==
    { NoneV, IntV(0), IntV(7), BoolV(FALSE), BoolV(TRUE), FloatV(0),
      ListV(<<>>), ListV(<<IntV(1), StrV(<<"a">>)>>), TupleV(<<>>), SetV(<<>>),
      DictV(<<>>), DictV(<< <<StrV(<<"a">>), IntV(1)>> >>),
      DictV(<< <<StrV(<<"a">>), DictV(<< <<StrV(<<"a">>), IntV(1)>> >>)>>,
               <<StrV(<<>>), ListV(<<>>)>> >>) }

----------------------------------------------------------------------------
(* str_to_dict_validator *)

\* print(x) to sys.stdout, a text stream with the default error handler: a
\* character the encoding cannot encode raises UnicodeEncodeError
PyPrint(x) ==
    IF IsStr(x) /\ \E i \in 1..Len(x.v) : x.v[i] = Surrogate
    THEN Raised("UnicodeEncodeError") ELSE Returned(NoneV)

\* the conversion of one value of a key=value pair
ConvertValue(value) ==
    IF Lower(value) = <<"t", "r", "u", "e">> THEN Returned(BoolV(TRUE))
    ELSE IF Lower(value) = <<"f", "a", "l", "s", "e">> THEN Returned(BoolV(FALSE))
    ELSE IF IsDigit(value)
         THEN (IF IsDecimal(value) THEN Returned(IntV(DecimalValue(value)))
               ELSE Raised("ValueError"))          \* int(value)
    ELSE Returned(StrV(value))

\* the loop over v.split('&')
RECURSIVE QueryPairs(_, _)
QueryPairs(pairs, params) ==
    IF pairs = <<>> THEN Returned(DictV(params))
    ELSE LET pair == Head(pairs)
         IN IF ~Contains(pair, <<"=">>) THEN QueryPairs(Tail(pairs), params)
            ELSE LET x == ConvertValue(AfterFirst(pair, <<"=">>))
                 IN IF ~x.ok THEN x
                    ELSE QueryPairs(Tail(pairs),
                                    DictSet(params, StrV(BeforeFirst(pair, <<"=">>)), x.val))

QueryParse(s) == QueryPairs(Split(s, "&"), <<>>)

BraceDelimited(s) == StartsWith(Strip(s), <<"{">>) /\ EndsWith(Strip(s), <<"}">>)

\* a variant of the test below: `if not v`
IsEmptyString_Falsy(x) ==
    \/ x.t \in {"str", "list", "tuple", "set", "dict"} /\ x.v = <<>>
    \/ x.t = "none"
    \/ IsNumber(x) /\ NumVal(x) = 0

\* v == ''
IsEmptyString(x) == IsStr(x) /\ x.v = <<>>

CoerceDone(x) ==
    /\ pc' = "done"
    /\ ret' = x
    /\ exc' = ""

CoerceRaise(e) ==
    /\ pc' = "raised"
    /\ exc' = e
    /\ ret' = ret

CoerceGoto(l) ==
    /\ pc' = l
    /\ UNCHANGED <<ret, exc>>

\* lines 171-173: the two tests before the first try block, and the final return
\* for a value that is not a string
CoerceEnter ==
    /\ op = "coerce" /\ pc = "start"
    /\ IF IsEmptyString(arg) THEN CoerceDone(DictV(<<>>))
       ELSE IF IsStr(arg) THEN CoerceGoto("json")
       ELSE CoerceDone(arg)
    /\ UNCHANGED <<op, arg, tried, items, acc, base64_images, image_links, saved_images, world>>

\* lines 175-178: try json.loads, except json.JSONDecodeError: print(v)
TryJson ==
    /\ op = "coerce" /\ pc = "json"
    /\ tried' = Append(tried, "json")
    /\ LET r == JsonLoads(arg.v)
       IN IF r.ok THEN CoerceDone(r.val)
          ELSE IF r.exc # "JSONDecodeError" THEN CoerceRaise(r.exc)
          ELSE IF ~PyPrint(arg).ok THEN CoerceRaise(PyPrint(arg).exc)
          ELSE CoerceGoto("literal")
    /\ UNCHANGED <<op, arg, items, acc, base64_images, image_links, saved_images, world>>

\* lines 181-187: try ast.literal_eval when brace-delimited,
\* except (ValueError, SyntaxError, TypeError): print(v)
TryLiteral ==
    /\ op = "coerce" /\ pc = "literal"
    /\ IF ~BraceDelimited(arg.v) THEN CoerceGoto("query") /\ tried' = tried
       ELSE /\ tried' = Append(tried, "literal")
            /\ LET r == LiteralEval(arg.v)
               IN IF r.ok THEN CoerceDone(r.val)
                  ELSE IF r.exc \notin {"ValueError", "SyntaxError", "TypeError"}
                       THEN CoerceRaise(r.exc)
                  ELSE IF ~PyPrint(arg).ok THEN CoerceRaise(PyPrint(arg).exc)
                  ELSE CoerceGoto("query")
    /\ UNCHANGED <<op, arg, items, acc, base64_images, image_links, saved_images, world>>

\* lines 190-213: try the key=value parse when '=' occurs, except Exception:
\* print(e); print(print(v)); then return v
TryQuery ==
    /\ op = "coerce" /\ pc = "query"
    /\ IF ~Contains(arg.v, <<"=">>) THEN CoerceDone(arg) /\ tried' = tried
       ELSE /\ tried' = Append(tried, "query")
            /\ LET r == QueryParse(arg.v)
               IN IF r.ok THEN CoerceDone(r.val)
                  ELSE IF ~PyPrint(arg).ok THEN CoerceRaise(PyPrint(arg).exc)
                  ELSE CoerceDone(arg)
    /\ UNCHANGED <<op, arg, items, acc, base64_images, image_links, saved_images, world>>

InitCoerce ==
    /\ op = "coerce"
    /\ pc = "start"
    /\ arg \in {StrV(s) : s \in CoerceStrings} \cup NonStrings
    /\ ret = NoneV
    /\ exc = ""
    /\ tried = <<>>
    /\ items = <<>>
    /\ acc = <<>>
    /\ base64_images = <<>>
    /\ image_links = <<>>
    /\ saved_images = <<>>
    /\ fs = NoFiles
    /\ net = <<>>
    /\ call = NoCall
    /\ response = NoResponse
    /\ folder_path = <<>>
    /\ links_result = NoneV

NextCoerce == CoerceEnter \/ TryJson \/ TryLiteral \/ TryQuery

SpecCoerce == InitCoerce /\ [][NextCoerce]_vars

----------------------------------------------------------------------------
(* Claims about the coercer *)

CoerceEnded == op = "coerce" /\ pc \in {"done", "raised"}

\* the result the strategies give when tried in the fixed priority order
FirstSuccess(s) ==
    IF JsonLoads(s).ok THEN JsonLoads(s).val
    ELSE IF BraceDelimited(s) /\ LiteralEval(s).ok THEN LiteralEval(s).val
    ELSE IF Contains(s, <<"=">>) /\ QueryParse(s).ok THEN QueryParse(s).val
    ELSE StrV(s)

\* the try blocks entered, given which strategies accept s
ExpectedTried(s) ==
    <<"json">>
    \o (IF ~JsonLoads(s).ok /\ BraceDelimited(s) THEN <<"literal">> ELSE <<>>)
    \o (IF ~JsonLoads(s).ok /\ ~(BraceDelimited(s) /\ LiteralEval(s).ok) /\ Contains(s, <<"=">>)
        THEN <<"query">> ELSE <<>>)

\* C1: for every string input the strategies are tried in the order JSON, literal,
\* query; the call returns the result of the first that succeeds, no later strategy
\* is applied after a success, and the input itself when none succeeds or applies.
C1_FirstSuccessInOrder ==
    (CoerceEnded /\ IsStr(arg)) =>
        /\ pc = "done"
        /\ ret = FirstSuccess(arg.v)
        /\ tried = ExpectedTried(arg.v)

\* C2: a string that is well-formed JSON with a top level that is not an object is
\* not returned parsed: the later strategies are tried and, when none applies, the
\* input string is returned unchanged.
C2_JsonObjectOnly ==
    (CoerceEnded /\ IsStr(arg) /\ JsonLoads(arg.v).ok /\ ~IsDict(JsonLoads(arg.v).val)) =>
        /\ pc = "done"
        /\ ret # JsonLoads(arg.v).val
        /\ (~BraceDelimited(arg.v) /\ ~Contains(arg.v, <<"=">>)) => ret = arg

\* C3: the literal strategy is attempted only on a brace-delimited string, and a
\* brace-delimited string makes the coercer return a mapping or the unchanged input.
C3_LiteralGivesMapping ==
    /\ (op = "coerce" /\ \E i \in 1..Len(tried) : tried[i] = "literal") => BraceDelimited(arg.v)
    /\ (CoerceEnded /\ IsStr(arg) /\ BraceDelimited(arg.v)) =>
           (pc = "done" /\ (IsDict(ret) \/ ret = arg))

\* the key=value mapping as the claim describes it: split on '&', each pair on its
\* first '=', values converted, the last occurrence of a key wins
PairsOf(s) ==
    LET parts == Split(s, "&")
    IN {i \in 1..Len(parts) : Contains(parts[i], <<"=">>)}
KeyOf(s, i) == BeforeFirst(Split(s, "&")[i], <<"=">>)
ValueOf(s, i) == AfterFirst(Split(s, "&")[i], <<"=">>)
Converted(value) ==
    IF Lower(value) = <<"t", "r", "u", "e">> THEN BoolV(TRUE)
    ELSE IF Lower(value) = <<"f", "a", "l", "s", "e">> THEN BoolV(FALSE)
    ELSE IF IsDecimal(value) THEN IntV(DecimalValue(value))
    ELSE StrV(value)
ExpectedQuery(s) ==
    [k \in {KeyOf(s, i) : i \in PairsOf(s)} |->
        LET last == CHOOSE i \in PairsOf(s) :
                        KeyOf(s, i) = k /\ \A j \in PairsOf(s) : KeyOf(s, j) = k => j <= i
        IN Converted(ValueOf(s, last))]

\* a dict with string keys as a function from key to value
DictAsFunction(d) ==
    [k \in {d.v[i][1].v : i \in 1..Len(d.v)} |->
        d.v[CHOOSE i \in 1..Len(d.v) : d.v[i][1].v = k][2]]

QueryApplies(s) ==
    /\ Contains(s, <<"=">>)
    /\ ~JsonLoads(s).ok
    /\ ~(BraceDelimited(s) /\ LiteralEval(s).ok)

\* C4: when the query-string strategy applies, the result is the mapping obtained by
\* splitting on '&' and on each pair's first '=', with true/false (any case) as
\* booleans, all-digit values as integers, other values as strings, keys unconverted
\* and the last occurrence of a key winning.
C4_QueryMapping ==
    (CoerceEnded /\ IsStr(arg) /\ QueryApplies(arg.v)) =>
        /\ pc = "done"
        /\ IsDict(ret)
        /\ DictAsFunction(ret) = ExpectedQuery(arg.v)

\* C5: the coercer never raises: every call ends by returning a value.
C5_NeverRaises == op = "coerce" => pc # "raised"

\* C6: the coercer is the identity on every input that is not a string.
C6_IdentityOnNonStrings ==
    (op = "coerce" /\ ~IsStr(arg)) =>
        /\ pc # "raised"
        /\ pc \notin {"json", "literal", "query"}
        /\ pc = "done" => ret = arg

C6_Witness ==
    /\ op = "coerce" /\ pc = "done"
    /\ IsDict(arg) /\ arg.v # <<>> /\ ret = arg

----------------------------------------------------------------------------
(* json.dumps with the default arguments: separators ", " and ": ",            *)
(* ensure_ascii, keys of the basic types converted to strings.                 *)

DigitChar(d) == CASE d = 0 -> "0" [] d = 1 -> "1" [] d = 2 -> "2" [] d = 3 -> "3" [] d = 4 -> "4"
                  [] d = 5 -> "5" [] d = 6 -> "6" [] d = 7 -> "7" [] d = 8 -> "8" [] OTHER -> "9"

\* str(n) for n >= 0
RECURSIVE IntToStr(_)
IntToStr(n) == IF n < 10 THEN <<DigitChar(n)>> ELSE IntToStr(n \div 10) \o <<DigitChar(n % 10)>>

\* one character inside a JSON string: ESCAPE_ASCII
EscapeChar(c) ==
    CASE c = DQ -> <<"\\", DQ>>
      [] c = Sup2 -> <<"\\", "u", "0", "0", "b", "2">>
      [] c = EAcute -> <<"\\", "u", "0", "0", "e", "9">>
      [] c = Surrogate -> <<"\\", "u", "d", "8", "0", "0">>
      [] OTHER -> <<c>>

RECURSIVE EncodeString(_)
EncodeString(s) == IF s = <<>> THEN <<>> ELSE EscapeChar(Head(s)) \o EncodeString(Tail(s))

\* the text of a value of a basic type; floats here are integral (repr gives n.0)
ScalarText(x) ==
    CASE x.t = "int" -> IntToStr(x.v)
      [] x.t = "float" -> IntToStr(x.v) \o <<".", "0">>
      [] x.t = "bool" -> (IF x.v THEN <<"t", "r", "u", "e">> ELSE <<"f", "a", "l", "s", "e">>)
      [] OTHER -> <<"n", "u", "l", "l">>

IsScalar(x) == x.t \in {"int", "float", "bool", "none"}

RECURSIVE JsonDumps(_)
RECURSIVE DumpItems(_, _)
RECURSIVE DumpPairs(_, _)

\* the elements of a list, ", " between them
DumpItems(xs, first) ==
    IF xs = <<>> THEN Returned(<<>>)
    ELSE LET head == JsonDumps(Head(xs))
             rest == DumpItems(Tail(xs), FALSE)
         IN IF ~head.ok THEN head
            ELSE IF ~rest.ok THEN rest
            ELSE Returned((IF first THEN <<>> ELSE <<",", Space>>) \o head.val \o rest.val)

\* the items of a dict: "key": value
DumpPairs(kvs, first) ==
    IF kvs = <<>> THEN Returned(<<>>)
    ELSE LET k == Head(kvs)[1]
             key == IF IsStr(k) THEN EncodeString(k.v) ELSE ScalarText(k)
             head == JsonDumps(Head(kvs)[2])
             rest == DumpPairs(Tail(kvs), FALSE)
         IN IF ~(IsStr(k) \/ IsScalar(k)) THEN Raised("TypeError")
            ELSE IF ~head.ok THEN head
            ELSE IF ~rest.ok THEN rest
            ELSE Returned((IF first THEN <<>> ELSE <<",", Space>>)
                          \o <<DQ>> \o key \o <<DQ, ":", Space>> \o head.val \o rest.val)

JsonDumps(x) ==
    IF IsStr(x) THEN Returned(<<DQ>> \o EncodeString(x.v) \o <<DQ>>)
    ELSE IF IsScalar(x) THEN Returned(ScalarText(x))
    ELSE IF x.t \in {"list", "tuple"} THEN
        LET r == DumpItems(x.v, TRUE)
        IN IF r.ok THEN Returned(<<"[">> \o r.val \o <<"]">>) ELSE r
    ELSE IF IsDict(x) THEN
        LET r == DumpPairs(x.v, TRUE)
        IN IF r.ok THEN Returned(<<"{">> \o r.val \o <<"}">>) ELSE r
    ELSE Raised("TypeError")     \* Object of type set is not JSON serializable

----------------------------------------------------------------------------
(* stringify_nested_objects *)

MaxItems == 2       \* most entries of a params mapping

FlattenKeys == {<<"a">>, <<"e">>, <<"t", "a">>}

\* the values of a ParameterBag: strings, booleans, integers, None, and nested
\* mappings and lists of them
FlattenValues ==
    { StrV(<<"a">>), StrV(<<>>), StrV(<<"{", "}">>), StrV(<<"[", "1", "]">>),
      IntV(0), IntV(12), BoolV(TRUE), BoolV(FALSE), NoneV,
      DictV(<<>>), ListV(<<>>),
      DictV(<< <<StrV(<<"e">>), IntV(1)>> >>),
      DictV(<< <<StrV(<<"a">>), StrV(<<"a">>)>>, <<StrV(<<"e">>), ListV(<<BoolV(TRUE)>>)>> >>),
      ListV(<<IntV(1), IntV(2), IntV(10)>>),
      ListV(<<DictV(<< <<StrV(<<"a">>), DictV(<<>>)>> >>), StrV(<<"a", Space, "e">>)>>) }

\* the mappings of n entries with distinct keys
FlattenInputs(n) ==
    { DictV([i \in 1..n |-> <<StrV(ks[i]), vs[i]>>]) :
        ks \in {f \in [1..n -> FlattenKeys] : \A i, j \in 1..n : i # j => f[i] # f[j]},
        vs \in [1..n -> FlattenValues] }

\* a variant of the test below: isinstance(value, dict)
IsNested_DictOnly(value) == value.t = "dict"

\* line 162: isinstance(value, (dict, list))
IsNested(value) == value.t \in {"dict", "list"}

\* lines 160-166: one iteration of the loop over params.items()
FlattenStep ==
    /\ op = "flatten" /\ pc = "loop" /\ items # <<>>
    /\ LET key == Head(items)[1]
           value == Head(items)[2]
       IN IF IsNested(value)
          THEN LET r == JsonDumps(value)
               IN IF r.ok
                  THEN acc' = DictSet(acc, key, StrV(r.val)) /\ UNCHANGED <<pc, exc>>
                  ELSE pc' = "raised" /\ exc' = r.exc /\ acc' = acc
          ELSE acc' = DictSet(acc, key, value) /\ UNCHANGED <<pc, exc>>
    /\ items' = Tail(items)
    /\ UNCHANGED <<op, arg, ret, tried, base64_images, image_links, saved_images, world>>

\* line 167: return processed_params
FlattenReturn ==
    /\ op = "flatten" /\ pc = "loop" /\ items = <<>>
    /\ pc' = "done"
    /\ ret' = DictV(acc)
    /\ UNCHANGED <<op, arg, exc, tried, items, acc, base64_images, image_links, saved_images, world>>

InitFlatten ==
    /\ op = "flatten"
    /\ pc = "loop"
    /\ \E n \in 0..MaxItems : arg \in FlattenInputs(n)
    /\ items = arg.v
    /\ acc = <<>>
    /\ ret = NoneV
    /\ exc = ""
    /\ tried = <<>>
    /\ base64_images = <<>>
    /\ image_links = <<>>
    /\ saved_images = <<>>
    /\ fs = NoFiles
    /\ net = <<>>
    /\ call = NoCall
    /\ response = NoResponse
    /\ folder_path = <<>>
    /\ links_result = NoneV

NextFlatten == FlattenStep \/ FlattenReturn

SpecFlatten == InitFlatten /\ [][NextFlatten]_vars

\* C7: the flattener returns a mapping with exactly the keys of its input in the
\* same order, in which every value that is a mapping or a list is replaced by its
\* JSON text (text that parses back, as JSON, to the value) and every other value
\* is passed through unchanged.
C7_FlattenKeysAndValues ==
    (op = "flatten") =>
        /\ pc # "raised"
        /\ pc = "done" =>
            /\ IsDict(ret)
            /\ Len(ret.v) = Len(arg.v)
            /\ \A i \in 1..Len(arg.v) :
                /\ ret.v[i][1] = arg.v[i][1]
                /\ IF arg.v[i][2].t \in {"dict", "list"}
                   THEN /\ IsStr(ret.v[i][2])
                        /\ ret.v[i][2].v = JsonDumps(arg.v[i][2]).val
                        /\ JsonLoads(ret.v[i][2].v) = Returned(arg.v[i][2])
                   ELSE ret.v[i][2] = arg.v[i][2]
            /\ arg = DictV(<< <<StrV(<<"a">>), DictV(<< <<StrV(<<"e">>), IntV(1)>> >>)>> >>)
                 => ret = DictV(<< <<StrV(<<"a">>),
                                    StrV(<<"{", DQ, "e", DQ, ":", Space, "1", "}">>)>> >>)

C7_Witness ==
    /\ op = "flatten" /\ pc = "done"
    /\ Len(arg.v) = 2
    /\ arg.v[1][2].t = "list" /\ arg.v[1][2].v # <<>>
    /\ arg.v[2][2].t = "str"
    /\ IsStr(ret.v[1][2]) /\ ret.v[2][2] = arg.v[2][2]

----------------------------------------------------------------------------
(* base64.b64decode(s) for a str s, validate=False *)

\* further characters that image strings are written with
ImageLetters == {"d", "i", "m", "g", "p", "n", "b", "s", "h", "x"}
ImageDigits == {"6", "4"}

NonAscii == {Sup2, Surrogate, EAcute}

\* the base64 alphabet, in the order of the values 0..63
B64Alphabet ==
    << "A", "B", "C", "D", "E", "F", "G", "H", "I", "J", "K", "L", "M", "N", "O", "P",
       "Q", "R", "S", "T", "U", "V", "W", "X", "Y", "Z", "a", "b", "c", "d", "e", "f",
       "g", "h", "i", "j", "k", "l", "m", "n", "o", "p", "q", "r", "s", "t", "u", "v",
       "w", "x", "y", "z", "0", "1", "2", "3", "4", "5", "6", "7", "8", "9", "+", "/" >>
B64Chars == {B64Alphabet[i] : i \in 1..64}
B64Value(c) == (CHOOSE i \in 1..64 : B64Alphabet[i] = c) - 1

BytesV(bs) == [t |-> "bytes", v |-> bs]     \* a bytes object: numbers 0..255

\* binascii.a2b_base64 without strict_mode: characters outside the alphabet are
\* skipped; '=' ends the data once the current quad has two or more characters and
\* the pads complete it; otherwise the data must end on a quad boundary.
\* TRUE when the decoding succeeds.
RECURSIVE A2bBase64(_, _, _, _)
A2bBase64(s, i, quad_pos, pads) ==
    IF i > Len(s) THEN quad_pos = 0
    ELSE IF s[i] = "=" THEN
        IF quad_pos >= 2 /\ quad_pos + pads + 1 >= 4 THEN TRUE
        ELSE A2bBase64(s, i + 1, quad_pos, IF quad_pos >= 2 THEN pads + 1 ELSE pads)
    ELSE IF s[i] \notin B64Chars THEN A2bBase64(s, i + 1, quad_pos, pads)
    ELSE A2bBase64(s, i + 1, (quad_pos + 1) % 4, 0)

\* the 6-bit values a2b_base64 takes in before it stops, on the same walk
RECURSIVE A2bSextets(_, _, _, _, _)
A2bSextets(s, i, quad_pos, pads, got) ==
    IF i > Len(s) THEN got
    ELSE IF s[i] = "=" THEN
        IF quad_pos >= 2 /\ quad_pos + pads + 1 >= 4 THEN got
        ELSE A2bSextets(s, i + 1, quad_pos, IF quad_pos >= 2 THEN pads + 1 ELSE pads, got)
    ELSE IF s[i] \notin B64Chars THEN A2bSextets(s, i + 1, quad_pos, pads, got)
    ELSE A2bSextets(s, i + 1, (quad_pos + 1) % 4, 0, Append(got, B64Value(s[i])))

\* the bytes of the 6-bit values: three bytes per full quad, one or two for a last
\* quad of two or three values (its spare bits are dropped)
A2bBytes(x) ==
    [j \in 1..((Len(x) * 6) \div 8) |->
        LET q == ((j - 1) \div 3) * 4
            r == (j - 1) % 3
        IN  CASE r = 0 -> x[q + 1] * 4 + x[q + 2] \div 16
              [] r = 1 -> (x[q + 2] % 16) * 16 + x[q + 3] \div 4
              [] r = 2 -> (x[q + 3] % 4) * 64 + x[q + 4]]

B64Decode(s) ==
    IF \E i \in 1..Len(s) : s[i] \in NonAscii
    THEN Raised("ValueError")      \* string argument should contain only ASCII characters
    ELSE IF A2bBase64(s, 1, 0, 0) THEN Returned(BytesV(A2bBytes(A2bSextets(s, 1, 0, 0, <<>>))))
    ELSE Raised("binascii.Error")

----------------------------------------------------------------------------
(* GoogleSearchTool._is_base64_image *)

DataImage == <<"d", "a", "t", "a", ":", "i", "m", "a", "g", "e", "/">>
Base64Comma == <<"b", "a", "s", "e", "6", "4", ",">>
Http == <<"h", "t", "t", "p", ":", "/", "/">>
Https == <<"h", "t", "t", "p", "s", ":", "/", "/">>

\* line 474
IsDataUri(s) == StartsWith(s, DataImage) /\ Contains(s, Base64Comma)

\* a variant of the test below: only the schemes are treated as URLs
IsUrl_SchemesOnly(s) == StartsWith(s, Http) \/ StartsWith(s, Https)

\* line 478
IsUrl(s) ==
    \/ StartsWith(s, Http)
    \/ StartsWith(s, Https)
    \/ StartsWith(s, <<"/", "/">>)
    \/ StartsWith(s, <<"/">>)

\* lines 484-485 (and 503-506): the text after the first 'base64,'
StripHeader(s) == IF Contains(s, Base64Comma) THEN AfterFirst(s, Base64Comma) ELSE s

\* lines 487 (and 507): re.sub(r'\s+', '', s)
RemoveWhitespace(s) == SelectSeq(s, LAMBDA c : ~IsSpace(c))

\* a variant of the test below: the padding is left out
AddPadding_None(s) == s

\* lines 490-492 (and 510-512)
AddPadding(s) ==
    LET missing_padding == Len(s) % 4
    IN IF missing_padding # 0 THEN s \o [k \in 1..(4 - missing_padding) |-> "="] ELSE s

CleanData(s) == AddPadding(RemoveWhitespace(StripHeader(s)))

\* lines 470-479: the tests made before any decoding; "decode" when none decides
EarlyVerdict(s) ==
    IF s = <<>> THEN "false"
    ELSE IF IsDataUri(s) THEN "true"
    ELSE IF IsUrl(s) THEN "false"
    ELSE "decode"

\* lines 482-497: try the decoding, except Exception: return False
DecodeVerdict(s) == B64Decode(CleanData(s)).ok

\* the whole method
IsBase64Image(s) ==
    IF EarlyVerdict(s) = "decode" THEN DecodeVerdict(s) ELSE EarlyVerdict(s) = "true"

MaxBody == 3        \* longest payload enumerated after each prefix

BodyAlphabet == {"A", "=", Space, "!", "/", EAcute}

ImagePrefixes ==
    { <<>>,
      DataImage,
      DataImage \o <<"p", "n", "g", ";">> \o Base64Comma,     \* data:image/png;base64,
      DataImage \o <<"p", "n", "g", ";", "b", "a", "s", "e", "6", "4">>,
      DataImage \o Base64Comma,                               \* data:image/base64,
      <<"d", "a", "t", "a", ":", "t", "e", "x", "t", ";">> \o Base64Comma,
      Base64Comma,
      <<"x">> \o Base64Comma,
      Http, Https, <<"h", "t", "t", "p", ":", "/">>,
      <<"/", "/">>, <<"/">>,
      <<"A", "A">> }

ImageStrings == {p \o b : p \in ImagePrefixes, b \in StringsUpTo(BodyAlphabet, MaxBody)}

\* lines 470-479
ClassifyEnter ==
    /\ op = "classify" /\ pc = "start"
    /\ IF EarlyVerdict(arg.v) = "decode"
       THEN pc' = "decode" /\ ret' = ret
       ELSE pc' = "done" /\ ret' = BoolV(EarlyVerdict(arg.v) = "true")
    /\ UNCHANGED <<op, arg, exc, tried, items, acc, base64_images, image_links, saved_images, world>>

\* lines 482-497
ClassifyDecode ==
    /\ op = "classify" /\ pc = "decode"
    /\ tried' = Append(tried, "decode")
    /\ pc' = "done"
    /\ ret' = BoolV(DecodeVerdict(arg.v))
    /\ UNCHANGED <<op, arg, exc, items, acc, base64_images, image_links, saved_images, world>>

InitClassify ==
    /\ op = "classify"
    /\ pc = "start"
    /\ arg \in {StrV(s) : s \in ImageStrings}
    /\ ret = NoneV
    /\ exc = ""
    /\ tried = <<>>
    /\ items = <<>>
    /\ acc = <<>>
    /\ base64_images = <<>>
    /\ image_links = <<>>
    /\ saved_images = <<>>
    /\ fs = NoFiles
    /\ net = <<>>
    /\ call = NoCall
    /\ response = NoResponse
    /\ folder_path = <<>>
    /\ links_result = NoneV

NextClassify == ClassifyEnter \/ ClassifyDecode

SpecClassify == InitClassify /\ [][NextClassify]_vars

----------------------------------------------------------------------------
(* Claims about the classifier *)

\* the data-URI pattern data:image/<type>;base64,<payload>
MatchesDataUriPattern(s) ==
    /\ StartsWith(s, DataImage)
    /\ Contains(Slice(s, Len(DataImage) + 1, Len(s)), <<";">> \o Base64Comma)

HasUrlPrefix(s) == \E p \in {Http, Https, <<"/", "/">>, <<"/">>} : StartsWith(s, p)

\* C8: a string that matches the data-URI pattern is classified as base64 whatever
\* its payload, and any other string that starts with http://, https://, // or / is
\* classified as a URL; neither is ever given to the decoder.
C8_EarlyRules ==
    (op = "classify") =>
        /\ MatchesDataUriPattern(arg.v) =>
              (pc # "decode" /\ tried = <<>> /\ (pc = "done" => ret = BoolV(TRUE)))
        /\ (~MatchesDataUriPattern(arg.v) /\ HasUrlPrefix(arg.v)) =>
              (pc # "decode" /\ tried = <<>> /\ (pc = "done" => ret = BoolV(FALSE)))

\* a URL-prefixed string that would decode as base64, classified as a URL
C8_Witness ==
    /\ op = "classify" /\ pc = "done"
    /\ StartsWith(arg.v, <<"/">>) /\ DecodeVerdict(arg.v)
    /\ ret = BoolV(FALSE)

\* the text the claim decodes: the header up to 'base64,' dropped, whitespace
\* removed, then the fewest '=' appended that make the length a multiple of 4
PaddedToFour(s) ==
    LET k == CHOOSE k \in 0..3 : (Len(s) + k) % 4 = 0
    IN s \o [i \in 1..k |-> "="]
WithoutWhitespace(s) == SelectSeq(s, LAMBDA c : c # Space)
WithoutHeader(s) ==
    IF \E i \in 1..Len(s) : Slice(s, i, i + 6) = Base64Comma
    THEN LET i == CHOOSE i \in 1..Len(s) :
                    /\ Slice(s, i, i + 6) = Base64Comma
                    /\ \A j \in 1..(i - 1) : Slice(s, j, j + 6) # Base64Comma
         IN Slice(s, i + 7, Len(s))
    ELSE s
DecodesAfterCleaning(s) == B64Decode(PaddedToFour(WithoutWhitespace(WithoutHeader(s)))).ok

\* C9 as stated: for every string, the empty one included, outside the data-URI
\* pattern and the URL prefixes, the classifier answers whether the cleaned and
\* padded string base64-decodes, and never raises.
C9_DecodeIffAnyString ==
    (op = "classify" /\ ~MatchesDataUriPattern(arg.v) /\ ~HasUrlPrefix(arg.v)) =>
        /\ pc # "raised"
        /\ pc = "done" => ret = BoolV(DecodesAfterCleaning(arg.v))

\* C9 amended: the same for every non-empty string that neither starts with
\* 'data:image/' while containing 'base64,' nor starts with a URL prefix.
C9_DecodeIff ==
    (/\ op = "classify"
     /\ arg.v # <<>>
     /\ ~(StartsWith(arg.v, DataImage) /\ WithoutHeader(arg.v) # arg.v)
     /\ ~HasUrlPrefix(arg.v)) =>
        /\ pc # "raised"
        /\ pc = "done" => (ret = BoolV(DecodesAfterCleaning(arg.v)) /\ tried = <<"decode">>)

\* a string with a header and whitespace that needs padding and decodes
C9_Witness ==
    /\ op = "classify" /\ pc = "done" /\ tried = <<"decode">>
    /\ Contains(arg.v, Base64Comma) /\ Contains(arg.v, <<Space>>)
    /\ Len(WithoutWhitespace(WithoutHeader(arg.v))) % 4 # 0
    /\ ret = BoolV(TRUE)

----------------------------------------------------------------------------
(* The file system, as the tools use it *)

\* os.path.join(folder, name): an absolute name replaces the folder
JoinPath(folder, name) ==
    IF StartsWith(name, <<"/">>) THEN <<name>> ELSE Append(folder, name)

\* os.makedirs(folder, exist_ok=True)
MakeDirs(f, folder) == [f EXCEPT !.dirs = @ \cup {Slice(folder, 1, n) : n \in 1..Len(folder)}]

FileExists(f, path) == path \in DOMAIN f.files

\* open(path, 'w' or 'wb') creates the file or empties it
Truncate(f, path) == [f EXCEPT !.files = (path :> <<>>) @@ @]
\* a write adds to the end of the file
Extend(f, path, data) == [f EXCEPT !.files = (path :> (@[path] \o data)) @@ @]
\* open(path, 'a') creates the file or keeps what it holds
OpenAppend(f, path) == IF FileExists(f, path) THEN f ELSE Truncate(f, path)

\* How much of the data reaches the file when the write raises OSError (the disk
\* is full, a quota is hit): none of it, or all but the last item.
PartialLengths(data) ==
    IF Len(data) = 0 THEN {} ELSE {0, Len(data) - 1}

\* What the disk does to `with open(path, mode) as f: f.write(data)`: the open
\* raises, the write raises after the open, or both succeed.
DiskOutcomes(data) ==
    {[kind |-> "ok", n |-> Len(data)], [kind |-> "open", n |-> 0]}
        \cup {[kind |-> "write", n |-> k] : k \in PartialLengths(data)}

\* the file system after `with open(path, 'w'/'wb') as f: f.write(data)`
WriteFile(f, path, data, disk) ==
    IF disk.kind = "open" THEN f
    ELSE Extend(Truncate(f, path), path, Slice(data, 1, disk.n))

\* the file system after `with open(path, 'a') as f: f.write(data)`
AppendFile(f, path, data, disk) ==
    IF disk.kind = "open" THEN f
    ELSE Extend(OpenAppend(f, path), path, Slice(data, 1, disk.n))

----------------------------------------------------------------------------
(* GoogleSearchTool._sanitize_filename and _save_base64_image *)

\* \w of a str pattern: letters, digits and the underscore, of any script
IsWordChar(c) ==
    c \in (B64Chars \ {"+", "/"}) \cup {"_", Sup2, EAcute}

\* re.sub(r'[-\s]+', '_', s): every run of hyphens and whitespace becomes one '_'
RECURSIVE CollapseRuns(_)
CollapseRuns(s) ==
    IF s = <<>> THEN <<>>
    ELSE IF Head(s) = "-" \/ IsSpace(Head(s))
         THEN IF Len(s) > 1 /\ (s[2] = "-" \/ IsSpace(s[2]))
              THEN CollapseRuns(Tail(s))
              ELSE <<"_">> \o CollapseRuns(Tail(s))
         ELSE <<Head(s)>> \o CollapseRuns(Tail(s))

MaxNameLen == 100

\* lines 462-466
SanitizeFilename(name) ==
    LET kept == SelectSeq(name, LAMBDA c : IsWordChar(c) \/ IsSpace(c) \/ c = "-")
    IN Slice(CollapseRuns(Strip(kept)), 1, MaxNameLen)

PngSignature == <<137, 80, 78, 71, 13, 10, 26, 10>>     \* b'\x89PNG\r\n\x1a\n'
Gif8 == <<71, 73, 70, 56>>                              \* b'GIF8'
Riff == <<82, 73, 70, 70>>                              \* b'RIFF'
Webp == <<87, 69, 66, 80>>                              \* b'WEBP'
JpegSignature == <<255, 216, 255>>                      \* b'\xff\xd8\xff'

\* lines 518-526
ImageFormat(image_bytes) ==
    IF StartsWith(image_bytes, PngSignature) THEN <<"p", "n", "g">>
    ELSE IF StartsWith(image_bytes, Gif8) THEN <<"g", "i", "f">>
    ELSE IF StartsWith(image_bytes, Riff) /\ Contains(image_bytes, Webp) THEN <<"w", "e", "b", "p">>
    ELSE IF StartsWith(image_bytes, JpegSignature) THEN <<"j", "p", "g">>
    ELSE <<"j", "p", "g">>

\* a variant of the cleaning below: the padding is left out
CleanB64Data_Unpadded(image_data) ==
    LET bare == IF Contains(image_data, Base64Comma)
                THEN AfterFirst(image_data, Base64Comma) ELSE image_data
    IN SelectSeq(bare, LAMBDA c : ~IsSpace(c))

\* lines 503-512: the data without its header and whitespace, padded
CleanB64Data(image_data) ==
    LET bare == IF Contains(image_data, Base64Comma)
                THEN AfterFirst(image_data, Base64Comma) ELSE image_data
        clean == SelectSeq(bare, LAMBDA c : ~IsSpace(c))
        missing_padding == Len(clean) % 4
    IN IF missing_padding # 0 THEN clean \o [i \in 1..(4 - missing_padding) |-> "="] ELSE clean

\* lines 529-530
ImageFilename(filename_prefix, title, image_format) ==
    filename_prefix \o <<"_">> \o SanitizeFilename(title) \o <<".">> \o image_format

\* a variant of the handler below: the exception is raised again
PersistCaught_Reraised(title, e, f) ==
    [result |-> "", title |-> title, path |-> <<>>, error |-> e, raised |-> e, fs |-> f]

\* lines 539-540: except Exception as e: return f"Failed to save '{title}': {str(e)}"
PersistCaught(title, e, f) ==
    [result |-> "Failed to save", title |-> title, path |-> <<>>, error |-> e, raised |-> "",
     fs |-> f]

\* _save_base64_image, lines 499-540: the result string ("Saved: <path>", or
\* "Failed to save '<title>': <error>") and the file system it leaves
SaveBase64Image(image_data, folder, filename_prefix, title, f, disk) ==
    LET decoded == B64Decode(CleanB64Data(image_data))
    IN IF ~decoded.ok
       THEN PersistCaught(title, decoded.exc, f)
       ELSE LET image_bytes == decoded.val.v
                filename == ImageFilename(filename_prefix, title, ImageFormat(image_bytes))
                file_path == JoinPath(folder, filename)
                written == WriteFile(MakeDirs(f, folder), file_path, image_bytes, disk)
            IN IF disk.kind = "ok"
               THEN [result |-> "Saved", title |-> title, path |-> file_path,
                     error |-> "", raised |-> "", fs |-> written]
               ELSE PersistCaught(title, "OSError", written)

\* the result string, without the file system
ResultText(r) == [result |-> r.result, title |-> r.title, path |-> r.path, error |-> r.error]

\* what the disk can do to the persister's write: it is reached only when the data decodes
PersistOutcomes(image_data) ==
    LET decoded == B64Decode(CleanB64Data(image_data))
    IN IF decoded.ok THEN DiskOutcomes(decoded.val.v) ELSE {[kind |-> "ok", n |-> 0]}

\* base64 payloads, named by the bytes they decode to
PngPayload == <<"i", "V", "B", "O", "R", "w", "0", "K", "G", "g", "o", "=">>     \* b'\x89PNG\r\n\x1a\n'
GifPayload == <<"R", "0", "l", "G", "O", "A", "=", "=">>     \* b'GIF8'
WebpPayload == <<"U", "k", "l", "G", "R", "g", "A", "A", "A", "A", "B", "X", "R", "U", "J", "Q">>     \* b'RIFF\0\0\0\0WEBP'
JpegPayload == <<"/", "9", "j", "/">>     \* b'\xff\xd8\xff'
WavePayload == <<"U", "k", "l", "G", "R", "g", "A", "A", "A", "A", "B", "X", "Q", "V", "Z", "F", "V", "0", "V", "C", "U", "A", "=", "=">>     \* b'RIFF\0\0\0\0WAVEWEBP'
RiffPayload == <<"U", "k", "l", "G", "R", "g", "A", "A", "A", "A", "B", "X", "Q", "V", "Z", "F">>     \* b'RIFF\0\0\0\0WAVE'
PngGifPayload == <<"i", "V", "B", "O", "R", "w", "0", "K", "G", "g", "p", "H", "S", "U", "Y", "4">>     \* a PNG signature followed by b'GIF8'
OtherPayload == <<"A", "A", "A", "A">>     \* b'\0\0\0'

PersistPayloads ==
    { PngPayload, GifPayload, WebpPayload, JpegPayload, WavePayload, RiffPayload,
      PngGifPayload, OtherPayload,
      Slice(PngPayload, 1, 11),                                 \* the padding is missing
      Slice(PngPayload, 1, 4) \o <<Space>> \o Slice(PngPayload, 5, 12),
      <<"A">>,                                                  \* does not decode
      <<>> }

\* data-URI headers with the media type they declare
PersistHeaders ==
    { <<>>,
      DataImage \o <<"p", "n", "g", ";">> \o Base64Comma,
      DataImage \o <<"g", "i", "f", ";">> \o Base64Comma,
      DataImage \o <<"j", "p", "e", "g", ";">> \o Base64Comma }

PersistTitles == { <<"a">>, <<"a", Space, "-", "e">>, <<"!", "a", "/">> }

ResultsFolder == <<"r">>        \* results_folder
Timestamp == <<"T", "1">>       \* strftime("%Y%m%d_%H%M%S") of the invocation's time
OutputFolder == <<ResultsFolder, Timestamp>>

PersistArgs ==
    { [image_data |-> h \o b, folder_path |-> OutputFolder, filename_prefix |-> <<"0", "1">>,
       title |-> t] : h \in PersistHeaders, b \in PersistPayloads, t \in PersistTitles }

\* one call of _save_base64_image
PersistSave ==
    /\ op = "persist" /\ pc = "start"
    /\ \E disk \in PersistOutcomes(arg.image_data) :
          LET r == SaveBase64Image(arg.image_data, arg.folder_path, arg.filename_prefix,
                                   arg.title, fs, disk)
          IN /\ fs' = r.fs
             /\ IF r.raised # ""
                THEN pc' = "raised" /\ exc' = r.raised /\ ret' = ret
                ELSE pc' = "done" /\ exc' = exc /\ ret' = StrV(ResultText(r))
    /\ UNCHANGED <<op, arg, tried, items, acc, base64_images, image_links, saved_images,
                   net, call, response, folder_path, links_result>>

InitPersist ==
    /\ op = "persist"
    /\ pc = "start"
    /\ arg \in PersistArgs
    /\ ret = NoneV
    /\ exc = ""
    /\ tried = <<>>
    /\ items = <<>>
    /\ acc = <<>>
    /\ base64_images = <<>>
    /\ image_links = <<>>
    /\ saved_images = <<>>
    /\ fs \in {NoFiles, MakeDirs(NoFiles, OutputFolder)}
    /\ net = <<>>
    /\ call = NoCall
    /\ response = NoResponse
    /\ folder_path = <<>>
    /\ links_result = NoneV

NextPersist == PersistSave

SpecPersist == InitPersist /\ [][NextPersist]_vars

\* C13: whenever the persister returns a failure, no file for the image, whole or
\* partial, exists afterwards.
C13_NoFileOnFailure ==
    (op = "persist" /\ pc = "done" /\ ret.v.result = "Failed to save") => DOMAIN fs.files = {}

\* the format named by the leading bytes alone, in the order PNG signature, GIF8,
\* RIFF....WEBP, FF D8 FF, otherwise jpg
LeadingFormat(b) ==
    IF Slice(b, 1, 8) = PngSignature THEN <<"p", "n", "g">>
    ELSE IF Slice(b, 1, 4) = Gif8 THEN <<"g", "i", "f">>
    ELSE IF Slice(b, 1, 4) = Riff /\ Slice(b, 9, 12) = Webp THEN <<"w", "e", "b", "p">>
    ELSE <<"j", "p", "g">>

\* C14: the extension of the saved file is the format named by the leading bytes
\* of the decoded payload, whatever media type the data-URI header declares.
C14_FormatFromLeadingBytes ==
    (op = "persist" /\ pc = "done" /\ ret.v.result = "Saved") =>
        LET image_bytes == B64Decode(CleanB64Data(arg.image_data)).val.v
            filename == ret.v.path[Len(ret.v.path)]
        IN EndsWith(filename, <<".">> \o LeadingFormat(image_bytes))

----------------------------------------------------------------------------
(* GoogleSearchTool._save_image_links *)

LinksFilename == <<"i", "m", "a", "g", "e", "_", "l", "i", "n", "k", "s", ".", "t", "x", "t">>
LinksTitleLine == "# Image Links from Google Search"

\* lines 554-556: the three writes of entry number i
LinkBlock(i, link_info) ==
    << <<i, "Title", link_info.title>>,
       <<"URL", link_info.url>>,
       <<"Position", link_info.position>> >>

\* a variant of the loop below: enumerate(image_links) without its start
RECURSIVE LinkBlocks_FromZero(_, _)
LinkBlocks_FromZero(links, i) ==
    IF i > Len(links) THEN <<>>
    ELSE LinkBlock(i - 1, links[i]) \o LinkBlocks_FromZero(links, i + 1)

\* line 553: for i, link_info in enumerate(image_links, 1), from entry i on
RECURSIVE LinkBlocks(_, _)
LinkBlocks(links, i) ==
    IF i > Len(links) THEN <<>>
    ELSE LinkBlock(i, links[i]) \o LinkBlocks(links, i + 1)

\* lines 551-556: everything written to the manifest, one item per f.write
ManifestLines(links, now) ==
    <<LinksTitleLine, <<"# Generated:", now>>>> \o LinkBlocks(links, 1)

\* what the disk can do to the writer: os.makedirs can fail only where it has a
\* directory to make
LinksOutcomes(links, folder, now, f) ==
    DiskOutcomes(ManifestLines(links, now))
        \cup (IF folder \in f.dirs THEN {} ELSE {[kind |-> "makedirs", n |-> 0]})

\* _save_image_links, lines 542-561: the result string and the file system it
\* leaves; os.makedirs (line 547) is outside the try, its error leaves the routine
SaveImageLinks(links, folder, now, f, disk) ==
    IF links = <<>>
    THEN [result |-> "No image links to save", count |-> 0, path |-> <<>>, raised |-> "", fs |-> f]
    ELSE IF disk.kind = "makedirs"
    THEN [result |-> "", count |-> 0, path |-> <<>>, raised |-> "OSError", fs |-> f]
    ELSE LET links_file == JoinPath(folder, LinksFilename)
             written == WriteFile(MakeDirs(f, folder), links_file,
                                  ManifestLines(links, now), disk)
         IN IF disk.kind = "ok"
            THEN [result |-> "Saved image links", count |-> Len(links),
                  path |-> links_file, raised |-> "", fs |-> written]
            ELSE [result |-> "Failed to save image links", count |-> 0,
                  path |-> <<>>, raised |-> "", fs |-> written]

LinksText(r) == [result |-> r.result, count |-> r.count, path |-> r.path]

----------------------------------------------------------------------------
(* The result saver utility functions *)

\* sanitize_filename, lines 121-127
sanitize_filename(url) ==
    LET bare == IF StartsWith(url, Https) THEN Slice(url, Len(Https) + 1, Len(url))
                ELSE IF StartsWith(url, Http) THEN Slice(url, Len(Http) + 1, Len(url))
                ELSE url
        clean == [i \in 1..Len(bare) |->
                    IF IsWordChar(bare[i]) \/ IsSpace(bare[i]) \/ bare[i] \in {".", "-"}
                    THEN bare[i] ELSE "_"]
    IN Slice(CollapseRuns(clean), 1, MaxNameLen)

MetadataFilename == <<"s", "c", "r", "a", "p", "i", "n", "g", "_", "m", "e", "t", "a", "d", "a", "t", "a", ".", "j", "s", "o", "n", "l">>
\* save_scraping_metadata, lines 131-138: the record, reference_id left at None
MetadataRecord(url, params, result_type, filename, now) ==
    [timestamp |-> now, url |-> url, params |-> params, result_type |-> result_type,
     filename |-> filename, reference_id |-> NoneV]
\* save_scraping_metadata, lines 140-143: one line is appended to the log
SaveScrapingMetadata(f, folder, record, disk) ==
    AppendFile(f, JoinPath(folder, MetadataFilename), <<record>>, disk)

----------------------------------------------------------------------------
(* The three tools: what they send and what they return *)

\* bool(x)
Truthy(x) ==
    CASE x.t = "none" -> FALSE
      [] x.t = "bool" -> x.v
      [] x.t \in {"int", "float"} -> x.v # 0
      [] OTHER -> Len(x.v) > 0

\* d.get(key, default) for a str key
DictGet(pairs, key, default) ==
    IF \E i \in 1..Len(pairs) : pairs[i][1] = StrV(key)
    THEN pairs[CHOOSE i \in 1..Len(pairs) : pairs[i][1] = StrV(key)][2]
    ELSE default

\* {**d, **e}: the entries of e are set on d in order
RECURSIVE DictUpdate(_, _)
DictUpdate(pairs, more) ==
    IF more = <<>> THEN pairs
    ELSE DictUpdate(DictSet(pairs, Head(more)[1], Head(more)[2]), Tail(more))

\* stringify_nested_objects as one call (lines 159-167), from the pairs still to
\* visit and the result so far
RECURSIVE StringifyNestedObjects(_, _)
StringifyNestedObjects(pairs, processed_params) ==
    IF pairs = <<>> THEN Returned(DictV(processed_params))
    ELSE LET key == Head(pairs)[1]
             value == Head(pairs)[2]
         IN IF IsNested(value)
            THEN LET r == JsonDumps(value)
                 IN IF r.ok
                    THEN StringifyNestedObjects(Tail(pairs),
                                                DictSet(processed_params, key, StrV(r.val)))
                    ELSE r
            ELSE StringifyNestedObjects(Tail(pairs), DictSet(processed_params, key, value))

ApiKey == StrV(<<"k">>)         \* self.api_key
UserAgent == <<"U", "s", "e", "r", "-", "A", "g", "e", "n", "t">>
LangChain == <<"L", "a", "n", "g", "C", "h", "a", "i", "n">>
ForwardHeaders == <<"f", "o", "r", "w", "a", "r", "d", "_", "h", "e", "a", "d", "e", "r", "s">>
SearchType == <<"s", "e", "a", "r", "c", "h", "_", "t", "y", "p", "e">>
Images == <<"i", "m", "a", "g", "e", "s">>

\* line 307: f"Spb-{key}"
SpbKey(key) == <<"S", "p", "b", "-">> \o key

\* a variant of the loop below: the name is forwarded without its prefix
SpbHeaders_Bare(headers) == headers

\* lines 305-309: the custom headers under their Spb- names
SpbHeaders(headers) ==
    [i \in 1..Len(headers) |-> <<StrV(SpbKey(headers[i][1].v)), headers[i][2]>>]

\* lines 302-313: final_headers
FinalHeaders(headers) ==
    LET given == IF headers.t = "none" THEN <<>> ELSE headers.v
        custom == IF given # <<>> THEN DictUpdate(<<>>, SpbHeaders(given)) ELSE <<>>
    IN DictSet(custom, StrV(UserAgent), StrV(LangChain))

\* lines 302-311: processed_params once the headers are looked at
WithForwardHeaders(processed_params, headers) ==
    IF headers.t # "none" /\ headers.v # <<>>
    THEN DictSet(processed_params, StrV(ForwardHeaders), BoolV(TRUE))
    ELSE processed_params

\* line 316: {'api_key': self.api_key, 'url': url, **processed_params}
ScrapeRequestParams(url, processed_params) ==
    DictUpdate(<< <<StrV(<<"a", "p", "i", "_", "k", "e", "y">>), ApiKey>>,
                  <<StrV(<<"u", "r", "l">>), StrV(url)>> >>, processed_params)

\* line 567: {'api_key': self.api_key, 'search': search, **params}
SearchRequestParams(search, params) ==
    DictUpdate(<< <<StrV(<<"a", "p", "i", "_", "k", "e", "y">>), ApiKey>>,
                  <<StrV(<<"s", "e", "a", "r", "c", "h">>), StrV(search)>> >>, params)

\* one requests.get
Request(api_url, params, headers, timeout) ==
    [api_url |-> api_url, params |-> params, headers |-> headers, timeout |-> timeout]

ErrorDetailCap == 1000      \* line 396: [:1000]

\* a variant of the test below: raise_for_status is not called, an HTTP error status
\* passes for a response
TransportFailed_NoStatusCheck(resp) == resp.status = "no response"

\* requests.get or raise_for_status raised a RequestException (lines 319-320, 570-571,
\* 734-735)
TransportFailed(resp) == resp.status # "ok"

\* getattr(e.response, 'text', str(e)): the body of the error response, or the
\* message of the exception when there is no response
ErrorText(resp) == IF resp.status = "http error" THEN resp.body ELSE resp.message

\* line 396
ScrapeErrorDetail(resp) == Slice(ErrorText(resp), 1, ErrorDetailCap)
\* line 573
SearchErrorDetail(resp) == ErrorText(resp)
\* line 738
UsageErrorDetail(resp) == ErrorText(resp)

\* the error strings of lines 397, 573 and 739
ScrapeError(resp) ==
    StrV([text |-> "Error: Request failed. Details:", detail |-> ScrapeErrorDetail(resp)])
SearchError(resp) ==
    StrV([text |-> "Error during Google Search API call:", detail |-> SearchErrorDetail(resp)])
UsageError(resp) ==
    StrV([text |-> "Error checking usage:", detail |-> UsageErrorDetail(resp)])

ImageSlash == <<"i", "m", "a", "g", "e", "/">>
ApplicationPdf == <<"a", "p", "p", "l", "i", "c", "a", "t", "i", "o", "n", "/", "p", "d", "f">>
OctetStream == <<"o", "c", "t", "e", "t", "-", "s", "t", "r", "e", "a", "m">>
TextHtml == <<"t", "e", "x", "t", "/", "h", "t", "m", "l">>
ImagePng == <<"i", "m", "a", "g", "e", "/", "p", "n", "g">>

\* a variant of the test below: the Content-Type alone decides
IsBinary_ContentTypeOnly(content_type, params) ==
    \E sub \in {ImageSlash, ApplicationPdf, OctetStream} : Contains(content_type, sub)

\* lines 323-329
IsBinary(content_type, params) ==
    \/ \E sub \in {ImageSlash, ApplicationPdf, OctetStream} : Contains(content_type, sub)
    \/ Truthy(DictGet(params, <<"s", "c", "r", "e", "e", "n", "s", "h", "o", "t">>, NoneV))
    \/ Truthy(DictGet(params, <<"s", "c", "r", "e", "e", "n", "s", "h", "o", "t", "_", "f", "u", "l", "l", "_", "p", "a", "g", "e">>, NoneV))
    \/ Truthy(DictGet(params, <<"s", "c", "r", "e", "e", "n", "s", "h", "o", "t", "_", "s", "e", "l", "e", "c", "t", "o", "r">>, NoneV))

\* _get_extension_from_content_type, lines 284-291
GetExtensionFromContentType(content_type) ==
    IF Contains(content_type, ImagePng) THEN <<"p", "n", "g">>
    ELSE IF Contains(content_type, <<"i", "m", "a", "g", "e", "/", "j", "p", "e", "g">>) \/ Contains(content_type, <<"i", "m", "a", "g", "e", "/", "j", "p", "g">>)
         THEN <<"j", "p", "g">>
    ELSE IF Contains(content_type, ApplicationPdf) THEN <<"p", "d", "f">>
    ELSE IF Contains(content_type, <<"i", "m", "a", "g", "e", "/", "w", "e", "b", "p">>) THEN <<"w", "e", "b", "p">>
    ELSE IF Contains(content_type, <<"i", "m", "a", "g", "e", "/", "g", "i", "f">>) THEN <<"g", "i", "f">>
    ELSE <<"b", "i", "n">>

\* lines 336-341 and 364-367
ScrapeFilename(url, custom_filename, content_type, is_binary) ==
    IF Truthy(custom_filename) THEN custom_filename.v
    ELSE IF is_binary
         THEN sanitize_filename(url) \o <<".">> \o GetExtensionFromContentType(content_type)
         ELSE sanitize_filename(url) \o <<".", "h", "t", "m", "l">>

\* a variant of the reports below: the text of the response is always in the string
ScrapeText_ContentAlways(is_binary, file_path, resp, url, return_content) ==
    StrV([text |-> IF is_binary
                   THEN (IF return_content THEN "Binary content saved and processed"
                         ELSE "Binary content saved successfully")
                   ELSE (IF return_content THEN "Text content saved and loaded"
                         ELSE "Text content saved successfully"),
          file |-> file_path,
          size |-> Len(resp.body),
          content_type |-> resp.content_type,
          url |-> url,
          content |-> IF ~is_binary THEN resp.body ELSE <<>>])

\* lines 351-361 and 375-393: the four reports of a scrape; the content is in the
\* string for a text response with return_content
ScrapeText(is_binary, file_path, resp, url, return_content) ==
    StrV([text |-> IF is_binary
                   THEN (IF return_content THEN "Binary content saved and processed"
                         ELSE "Binary content saved successfully")
                   ELSE (IF return_content THEN "Text content saved and loaded"
                         ELSE "Text content saved successfully"),
          file |-> file_path,
          size |-> Len(resp.body),
          content_type |-> resp.content_type,
          url |-> url,
          content |-> IF ~is_binary /\ return_content THEN resp.body ELSE <<>>])

\* lines 684-685: params.get("search_type", "web") and the file name made of it
RegularSearchType(params) == DictGet(params, SearchType, StrV(<<"w", "e", "b">>)).v
RegularFilename(search, params) ==
    RegularSearchType(params) \o <<"_", "s", "e", "a", "r", "c", "h", "_">> \o sanitize_filename(search) \o <<".", "j", "s", "o", "n">>

\* lines 694-699: the count of the results, "unknown" when the text is not a JSON object
ResultCount(body) == IF body.json = "object" THEN body.count ELSE "unknown"

\* lines 701-713
RegularText(search, params, file_path, resp, return_content) ==
    StrV([text |-> "Search complete", query |-> search, type |-> RegularSearchType(params),
          results |-> ResultCount(resp.body), file |-> file_path,
          content |-> IF return_content THEN <<resp.body>> ELSE <<>>])

----------------------------------------------------------------------------
(* GoogleSearchTool._handle_image_search *)

MaxRecords == 2     \* most records in a response's image list

\* values of a record's "image" field
RecordImages ==
    { <<>>,                                                         \* the field is absent
      <<"A", "A", "A", "A">>,
      <<"A", "A">>,
      <<"A">>,
      DataImage \o <<"p", "n", "g", ";">> \o Base64Comma \o <<"A", "A", "A", "A">>,
      DataImage \o <<"p", "n", "g", ";">> \o Base64Comma \o <<"A">>,    \* does not decode
      Https \o <<"x">>,
      <<"/", "A", "A", "A">> }

ImageRecords ==
    { [image |-> i, title |-> <<"a">>, position |-> n] : i \in RecordImages, n \in {0, 1} }

ImageResults == UNION {[1..n -> ImageRecords] : n \in 0..MaxRecords}

\* lines 618-622
Base64Entry(item) == [data |-> item.image, title |-> item.title, position |-> item.position]
\* lines 624-628
LinkEntry(item) == [url |-> item.image, title |-> item.title, position |-> item.position]

\* a variant of the test below: `if` without `else`, the link is recorded in any case
AppendLink_Always(links, item) == Append(links, LinkEntry(item))

\* lines 617 and 623-628: the else branch of the classification
AppendLink(links, item) ==
    IF IsBase64Image(item.image) THEN links ELSE Append(links, LinkEntry(item))

\* lines 617-622: the if branch
AppendBase64(images, item) ==
    IF IsBase64Image(item.image) THEN Append(images, Base64Entry(item)) ELSE images

\* f"{item['position']:02d}" for a position that is not negative
FormatPosition(position) ==
    IF position < 10 THEN <<"0">> \o IntToStr(position) ELSE IntToStr(position)

\* lines 591 and 645: f"image_search_{sanitize_filename(search)}.json"
ImageResultsFilename(search) ==
    <<"i", "m", "a", "g", "e", "_", "s", "e", "a", "r", "c", "h", "_">> \o sanitize_filename(search) \o <<".", "j", "s", "o", "n">>

\* json.dump(results, f): the document of the response, written in one piece
ResultsDocument(resp) == <<resp.body>>

\* the strings _handle_image_search returns
ImageSearchParseError == StrV([text |-> "Error: Failed to parse the image search response as JSON."])
ImageSearchError(e) ==
    StrV([text |-> "An unexpected error occurred during image search", detail |-> e])
\* lines 598-606
NoResultsText(file_path, resp, return_content) ==
    StrV([text |-> "Image search complete but no results found", file |-> file_path,
          content |-> IF return_content THEN ResultsDocument(resp) ELSE <<>>])
\* lines 653-669: the count of the results that start with "Saved:", the result of
\* the links, the two paths and, on request, the content of the file
ImageSearchText(saved, links, json_file_path, folder, resp, return_content) ==
    StrV([text |-> "Image search complete",
          saved |-> Cardinality({i \in 1..Len(saved) : saved[i].result = "Saved"}),
          links |-> links,
          file |-> json_file_path,
          folder |-> folder,
          content |-> IF return_content THEN ResultsDocument(resp) ELSE <<>>])

\* one result of _save_base64_image, kept with the record it belongs to
SavedEntry(item, r) ==
    [result |-> r.result, title |-> item.title, position |-> item.position,
     path |-> r.path, error |-> r.error]

\* lines 584-585: response.json() and results.get("images", [])
ImagesParse ==
    /\ op = "images" /\ pc = "parse"
    /\ IF response.body.json = "invalid"
       THEN pc' = "done" /\ ret' = ImageSearchParseError /\ arg' = arg
       ELSE IF response.body.json # "object"
       THEN pc' = "done" /\ ret' = ImageSearchError("AttributeError") /\ arg' = arg
       ELSE pc' = "folder" /\ ret' = ret /\ arg' = response.body.images
    /\ UNCHANGED <<op, exc, tried, items, acc, base64_images, image_links, saved_images, world>>

\* line 588: create_results_folder; an OSError of os.makedirs goes to `except Exception`
ImagesCreateFolder ==
    /\ op = "images" /\ pc = "folder"
    /\ \/ /\ folder_path' = <<call.results_folder, call.now>>
          /\ fs' = MakeDirs(fs, folder_path')
          /\ pc' = "start" /\ ret' = ret
       \/ /\ pc' = "done" /\ ret' = ImageSearchError("OSError")
          /\ UNCHANGED <<fs, folder_path>>
    /\ UNCHANGED <<op, arg, exc, tried, items, acc, base64_images, image_links, saved_images,
                   links_result, net, call, response>>

\* lines 590-610: an empty image list is saved and reported at once (lines 590-606);
\* otherwise the two lists are set up
ImagesBegin ==
    /\ op = "images" /\ pc = "start"
    /\ IF arg = <<>>
       THEN \E disk \in DiskOutcomes(ResultsDocument(response)) :
               LET file_path == JoinPath(folder_path, ImageResultsFilename(call.search))
               IN /\ fs' = WriteFile(fs, file_path, ResultsDocument(response), disk)
                  /\ ret' = IF disk.kind = "ok"
                            THEN NoResultsText(file_path, response, call.return_content)
                            ELSE ImageSearchError("OSError")
                  /\ pc' = "done"
       ELSE pc' = "classify" /\ UNCHANGED <<fs, ret>>
    /\ items' = arg
    /\ base64_images' = <<>>
    /\ image_links' = <<>>
    /\ UNCHANGED <<op, arg, exc, tried, acc, saved_images, links_result, net, call, response,
                   folder_path>>

\* lines 612-628: one iteration of the loop over image_results
ImagesClassifyOne ==
    /\ op = "images" /\ pc = "classify" /\ items # <<>>
    /\ base64_images' = AppendBase64(base64_images, Head(items))
    /\ image_links' = AppendLink(image_links, Head(items))
    /\ items' = Tail(items)
    /\ UNCHANGED <<op, pc, arg, ret, exc, tried, acc, saved_images, world>>

\* line 631: the classification loop is over, the save loop starts
ImagesStartSaving ==
    /\ op = "images" /\ pc = "classify" /\ items = <<>>
    /\ pc' = "save"
    /\ items' = base64_images
    /\ saved_images' = <<>>
    /\ UNCHANGED <<op, arg, ret, exc, tried, acc, base64_images, image_links, world>>

\* lines 632-639: one iteration of the loop over base64_images; an exception
\* leaving _save_base64_image would go to `except Exception` (line 673)
ImagesSaveOne ==
    /\ op = "images" /\ pc = "save" /\ items # <<>>
    /\ \E disk \in PersistOutcomes(Head(items).data) :
          LET item == Head(items)
              r == SaveBase64Image(item.data, folder_path, FormatPosition(item.position),
                                   item.title, fs, disk)
          IN /\ fs' = r.fs
             /\ IF r.raised # ""
                THEN /\ pc' = "done" /\ ret' = ImageSearchError(r.raised)
                     /\ UNCHANGED <<saved_images, items>>
                ELSE /\ saved_images' = Append(saved_images, SavedEntry(item, r))
                     /\ items' = Tail(items)
                     /\ UNCHANGED <<pc, ret>>
    /\ UNCHANGED <<op, arg, exc, tried, acc, base64_images, image_links,
                   links_result, net, call, response, folder_path>>

\* line 642: the links are handed to _save_image_links; an OSError of its
\* os.makedirs goes to `except Exception`
ImagesSaveLinks ==
    /\ op = "images" /\ pc = "save" /\ items = <<>>
    /\ \E disk \in LinksOutcomes(image_links, folder_path, call.now, fs) :
          LET r == SaveImageLinks(image_links, folder_path, call.now, fs, disk)
          IN /\ fs' = r.fs
             /\ IF r.raised # ""
                THEN pc' = "done" /\ ret' = ImageSearchError(r.raised)
                                  /\ links_result' = links_result
                ELSE pc' = "json" /\ ret' = ret /\ links_result' = LinksText(r)
    /\ UNCHANGED <<op, arg, exc, tried, items, acc, base64_images, image_links, saved_images,
                   net, call, response, folder_path>>

\* lines 645-648: the full results are written as JSON
ImagesSaveJson ==
    /\ op = "images" /\ pc = "json"
    /\ \E disk \in DiskOutcomes(ResultsDocument(response)) :
          /\ fs' = WriteFile(fs, JoinPath(folder_path, ImageResultsFilename(call.search)),
                             ResultsDocument(response), disk)
          /\ IF disk.kind = "ok"
             THEN pc' = "metadata" /\ ret' = ret
             ELSE pc' = "done" /\ ret' = ImageSearchError("OSError")
    /\ UNCHANGED <<op, arg, exc, tried, items, acc, base64_images, image_links, saved_images,
                   links_result, net, call, response, folder_path>>

\* lines 651-669: the metadata record is appended and the summary returned
ImagesSaveMetadata ==
    /\ op = "images" /\ pc = "metadata"
    /\ LET record == MetadataRecord(<<"google_image_search:", call.search>>, call.params,
                                    "image_search", NoneV, call.now)
       IN \E disk \in DiskOutcomes(<<record>>) :
             /\ fs' = SaveScrapingMetadata(fs, folder_path, record, disk)
             /\ ret' = IF disk.kind = "ok"
                       THEN ImageSearchText(saved_images, links_result,
                                JoinPath(folder_path, ImageResultsFilename(call.search)),
                                folder_path, response, call.return_content)
                       ELSE ImageSearchError("OSError")
    /\ pc' = "done"
    /\ UNCHANGED <<op, arg, exc, tried, items, acc, base64_images, image_links, saved_images,
                   links_result, net, call, response, folder_path>>

\* a search that asks for images, and the response whose image list is `images`
ImageSearchParams == DictV(<< <<StrV(SearchType), StrV(Images)>> >>)
ImageSearchCall(return_content) ==
    [tool |-> "search", search |-> <<"a">>, params |-> ImageSearchParams,
     results_folder |-> ResultsFolder, return_content |-> return_content, now |-> Timestamp]
ImageResponse(images) ==
    [status |-> "ok", content_type |-> <<>>, body |-> [json |-> "object", images |-> images]]

\* the record loops on their own: the handler from line 590 on, the response
\* parsed and the folder made
InitImages ==
    /\ op = "images"
    /\ pc = "start"
    /\ arg \in ImageResults
    /\ ret = NoneV
    /\ exc = ""
    /\ tried = <<>>
    /\ items = <<>>
    /\ acc = <<>>
    /\ base64_images = <<>>
    /\ image_links = <<>>
    /\ saved_images = <<>>
    /\ links_result = NoneV
    /\ fs = MakeDirs(NoFiles, OutputFolder)
    /\ net = <<>>
    /\ call = ImageSearchCall(FALSE)
    /\ response = ImageResponse(arg)
    /\ folder_path = OutputFolder

NextImages ==
    ImagesBegin \/ ImagesClassifyOne \/ ImagesStartSaving \/ ImagesSaveOne \/ ImagesSaveLinks

SpecImages == InitImages /\ [][NextImages]_vars

\* how often x occurs in the sequence xs
Count(xs, x) == Cardinality({i \in 1..Len(xs) : xs[i] = x})

RecordOf(data, title, position) == [image |-> data, title |-> title, position |-> position]
AsRecords(entries, field) ==
    [i \in 1..Len(entries) |->
        RecordOf(IF field = "data" THEN entries[i].data ELSE entries[i].url,
                 entries[i].title, entries[i].position)]

\* the records of the response the classification loop has visited
Visited ==
    IF pc = "classify" THEN Slice(arg, 1, Len(arg) - Len(items))
    ELSE IF pc = "start" THEN <<>> ELSE arg

\* C10: every record of the image list is handled on exactly one path, base64 (a
\* saved file or its failure entry) or link manifest: each record visited is in
\* one of the two lists and not the other, the two lists together number the
\* records, and after the save loop every base64 record has its one result.
C10_ExactlyOnePath ==
    (op = "images") =>
        /\ \A r \in ImageRecords :
              Count(AsRecords(base64_images, "data"), r) + Count(AsRecords(image_links, "url"), r)
                  = Count(Visited, r)
        /\ \A i \in 1..Len(base64_images), j \in 1..Len(image_links) :
              base64_images[i].data # image_links[j].url
        /\ Len(base64_images) + Len(image_links) = Len(Visited)
        /\ (pc = "json" /\ arg # <<>>) =>
              /\ Len(saved_images) = Len(base64_images)
              /\ \A i \in 1..Len(saved_images) :
                    /\ saved_images[i].title = base64_images[i].title
                    /\ saved_images[i].position = base64_images[i].position
                    /\ saved_images[i].result \in {"Saved", "Failed to save"}

\* a response with a base64 record whose save fails and a link record
C10_Witness ==
    /\ op = "images" /\ pc = "json"
    /\ Len(arg) = 2 /\ Len(base64_images) = 1 /\ Len(image_links) = 1
    /\ saved_images[1].result = "Failed to save"

----------------------------------------------------------------------------
(* _save_image_links on its own *)

LinkEntries == {LinkEntry(r) : r \in {x \in ImageRecords : ~IsBase64Image(x.image)}}
LinkLists == UNION {[1..n -> LinkEntries] : n \in 0..MaxRecords}

\* one call of _save_image_links
LinksSave ==
    /\ op = "links" /\ pc = "start"
    /\ \E disk \in LinksOutcomes(arg.image_links, arg.folder_path, Timestamp, fs) :
          LET r == SaveImageLinks(arg.image_links, arg.folder_path, Timestamp, fs, disk)
          IN /\ fs' = r.fs
             /\ IF r.raised # ""
                THEN pc' = "raised" /\ exc' = r.raised /\ ret' = ret
                ELSE pc' = "done" /\ exc' = exc /\ ret' = StrV(LinksText(r))
    /\ UNCHANGED <<op, arg, tried, items, acc, base64_images, image_links, saved_images,
                   net, call, response, folder_path, links_result>>

InitLinks ==
    /\ op = "links"
    /\ pc = "start"
    /\ arg \in {[image_links |-> l, folder_path |-> OutputFolder] : l \in LinkLists}
    /\ ret = NoneV
    /\ exc = ""
    /\ tried = <<>>
    /\ items = <<>>
    /\ acc = <<>>
    /\ base64_images = <<>>
    /\ image_links = <<>>
    /\ saved_images = <<>>
    /\ fs \in {NoFiles, MakeDirs(NoFiles, OutputFolder)}
    /\ net = <<>>
    /\ call = NoCall
    /\ response = NoResponse
    /\ folder_path = <<>>
    /\ links_result = NoneV

NextLinks == LinksSave

SpecLinks == InitLinks /\ [][NextLinks]_vars

LinksPath == <<ResultsFolder, Timestamp, LinksFilename>>

\* C15: the writer leaves no file but image_links.txt, and that one only for a
\* non-empty list; an empty list writes nothing and is reported as "no links", not
\* as an error; a non-empty list of n entries, once reported saved, has given one
\* manifest: the title line, the timestamp line, then n blocks numbered 1..n with
\* the title, URL and position of the entries in input order.
C15_ManifestIffLinks ==
    (op = "links" /\ pc # "start") =>
        LET links == arg.image_links
            n == Len(links)
        IN /\ DOMAIN fs.files \subseteq {LinksPath}
           /\ FileExists(fs, LinksPath) => links # <<>>
           /\ links = <<>> =>
                 /\ pc = "done"
                 /\ ret.v.result = "No image links to save" /\ ret.v.count = 0
           /\ (links # <<>> /\ pc = "done" /\ ret.v.result # "Failed to save image links") =>
                 /\ ret.v.result = "Saved image links" /\ ret.v.count = n
                 /\ FileExists(fs, LinksPath)
                 /\ LET text == fs.files[LinksPath]
                    IN /\ Len(text) = 2 + 3 * n
                       /\ text[1] = LinksTitleLine
                       /\ text[2] = <<"# Generated:", Timestamp>>
                       /\ \A i \in 1..n :
                             /\ text[3 * i] = <<i, "Title", links[i].title>>
                             /\ text[3 * i + 1] = <<"URL", links[i].url>>
                             /\ text[3 * i + 2] = <<"Position", links[i].position>>

\* two different links, saved
C15_Witness ==
    /\ op = "links" /\ pc = "done"
    /\ Len(arg.image_links) = 2 /\ arg.image_links[1] # arg.image_links[2]
    /\ ret.v.result = "Saved image links"
    /\ FileExists(fs, LinksPath) /\ Len(fs.files[LinksPath]) = 8

----------------------------------------------------------------------------
(* The invocations of the tools and the responses of the service *)

\* bodies of error responses and messages of exceptions, around the cap of line 396
ErrorBodies == {[i \in 1..n |-> "x"] : n \in {0, 2, ErrorDetailCap, ErrorDetailCap + 1}}

\* raise_for_status raised for an error status (the exception carries the
\* response), or requests.get raised without any response
FailedResponses ==
    {[status |-> "http error", content_type |-> <<>>, body |-> b, message |-> <<"5", "0", "0">>] :
        b \in ErrorBodies}
    \cup {[status |-> "no response", content_type |-> <<>>, body |-> <<>>, message |-> m] :
            m \in ErrorBodies \ {<<>>}}

ScrapeResponses ==
    {[status |-> "ok", content_type |-> ct, body |-> <<"a", "e">>, message |-> <<>>] :
        ct \in {TextHtml, ImagePng, <<>>}}
    \cup FailedResponses

\* records of an image search: two payloads that decode, under the same title and
\* position, a data URI whose payload does not, a link
ToolImageRecords ==
    { [image |-> <<"A", "A", "A", "A">>, title |-> <<"a">>, position |-> 0],
      [image |-> <<"A", "A", "A", "B">>, title |-> <<"a">>, position |-> 0],
      [image |-> DataImage \o <<"p", "n", "g", ";">> \o Base64Comma \o <<"A">>,
       title |-> <<"a">>, position |-> 1],
      [image |-> Https \o <<"x">>, title |-> <<"e">>, position |-> 0] }
ToolImageLists == UNION {[1..n -> ToolImageRecords] : n \in 0..MaxRecords}

\* the body of a search response: a JSON object with its image list and the number
\* of its other results, JSON that is not an object, or no JSON
SearchBodies ==
    {[json |-> "object", images |-> l, count |-> 3] : l \in ToolImageLists}
    \cup {[json |-> j, images |-> <<>>, count |-> 0] : j \in {"array", "invalid"}}

SearchResponses ==
    {[status |-> "ok", content_type |-> <<>>, body |-> b, message |-> <<>>] : b \in SearchBodies}
    \cup FailedResponses

UsageResponses ==
    {[status |-> "ok", content_type |-> <<>>, body |-> <<"{", "}">>, message |-> <<>>]}
    \cup FailedResponses

ScrapeCallParams ==
    { NoneV,
      DictV(<<>>),
      DictV(<< <<StrV(<<"s", "c", "r", "e", "e", "n", "s", "h", "o", "t">>), BoolV(TRUE)>> >>),
      DictV(<< <<StrV(ForwardHeaders), BoolV(FALSE)>> >>),
      DictV(<< <<StrV(<<"a">>), DictV(<< <<StrV(<<"e">>), IntV(1)>> >>)>> >>),
      DictV(<< <<StrV(<<"a">>), ListV(<<SetV(<<IntV(1)>>)>>)>> >>),     \* not JSON serializable
      DictV(<< <<StrV(<<"a", "p", "i", "_", "k", "e", "y">>), StrV(<<"x">>)>>,
               <<StrV(<<"u", "r", "l">>), StrV(<<"e">>)>> >>) }

ScrapeCallHeaders ==
    { NoneV,
      DictV(<<>>),
      DictV(<< <<StrV(<<"A">>), StrV(<<"a">>)>> >>),
      DictV(<< <<StrV(<<"A">>), StrV(<<"a">>)>>, <<StrV(<<"e">>), StrV(<<"t">>)>> >>) }

\* custom_filename: left out, a bare name, an absolute path
CustomFilenames == {NoneV, StrV(<<"e">>), StrV(<<"/", "x">>)}

ScrapeCalls ==
    { [tool |-> "scrape", url |-> Https \o <<"a">>, params |-> p, headers |-> h,
       results_folder |-> ResultsFolder, custom_filename |-> c, return_content |-> r,
       now |-> Timestamp] :
        p \in ScrapeCallParams, h \in ScrapeCallHeaders, c \in CustomFilenames,
        r \in BOOLEAN }

SearchCallParams ==
    { NoneV,
      DictV(<< <<StrV(SearchType), StrV(<<"n", "e", "w", "s">>)>> >>),
      DictV(<< <<StrV(<<"a", "p", "i", "_", "k", "e", "y">>), StrV(<<"x">>)>>,
               <<StrV(<<"s", "e", "a", "r", "c", "h">>), StrV(<<"e">>)>> >>),
      ImageSearchParams }

SearchCalls ==
    { [tool |-> "search", search |-> <<"a">>, params |-> p, results_folder |-> ResultsFolder,
       return_content |-> r, now |-> Timestamp] : p \in SearchCallParams, r \in BOOLEAN }

UsageCall == [tool |-> "usage"]

----------------------------------------------------------------------------
(* ScrapeUrlTool._run *)

\* lines 297-320: the request is built and sent; a RequestException ends the call
\* with the error string (lines 395-397); json.dumps failing at line 300 is outside
\* the try
ScrapeRequest ==
    /\ op = "scrape" /\ pc = "start"
    /\ LET params == IF call.params.t = "none" THEN <<>> ELSE call.params.v
           flat == StringifyNestedObjects(params, <<>>)
       IN IF ~flat.ok
          THEN pc' = "raised" /\ exc' = flat.exc /\ UNCHANGED <<ret, net, response>>
          ELSE \E resp \in ScrapeResponses :
                  /\ net' = Append(net,
                        Request("https://app.scrapingbee.com/api/v1/",
                                ScrapeRequestParams(call.url,
                                    WithForwardHeaders(flat.val.v, call.headers)),
                                FinalHeaders(call.headers), 180))
                  /\ response' = resp
                  /\ exc' = exc
                  /\ IF TransportFailed(resp)
                     THEN pc' = "done" /\ ret' = ScrapeError(resp)
                     ELSE pc' = "folder" /\ ret' = ret
    /\ UNCHANGED <<op, arg, tried, items, acc, base64_images, image_links, saved_images,
                   links_result, fs, call, folder_path>>

\* line 332: create_results_folder; an OSError leaves _run (only RequestException is
\* caught)
ScrapeCreateFolder ==
    /\ op = "scrape" /\ pc = "folder"
    /\ \/ /\ folder_path' = <<call.results_folder, call.now>>
          /\ fs' = MakeDirs(fs, folder_path')
          /\ pc' = "write" /\ exc' = exc
       \/ /\ pc' = "raised" /\ exc' = "OSError"
          /\ UNCHANGED <<fs, folder_path>>
    /\ UNCHANGED <<op, arg, ret, tried, items, acc, base64_images, image_links, saved_images,
                   links_result, net, call, response>>

ScrapeParams == IF call.params.t = "none" THEN <<>> ELSE call.params.v
ScrapeIsBinary == IsBinary(response.content_type, ScrapeParams)
ScrapeFilePath ==
    JoinPath(folder_path,
             ScrapeFilename(call.url, call.custom_filename, response.content_type,
                            ScrapeIsBinary))

\* lines 334-347 and 362-371: the content is written, as bytes or as text
ScrapeWriteFile ==
    /\ op = "scrape" /\ pc = "write"
    /\ \E disk \in DiskOutcomes(response.body) :
          /\ fs' = WriteFile(fs, ScrapeFilePath, response.body, disk)
          /\ IF disk.kind = "ok"
             THEN pc' = "metadata" /\ exc' = exc
             ELSE pc' = "raised" /\ exc' = "OSError"
    /\ UNCHANGED <<op, arg, ret, tried, items, acc, base64_images, image_links, saved_images,
                   links_result, net, call, response, folder_path>>

\* lines 349-361 and 373-393: the metadata record is appended and the report returned
ScrapeSaveMetadata ==
    /\ op = "scrape" /\ pc = "metadata"
    /\ LET filename == ScrapeFilePath[Len(ScrapeFilePath)]
           record == MetadataRecord(call.url, call.params,
                                    IF ScrapeIsBinary THEN "binary" ELSE "text",
                                    StrV(filename), call.now)
       IN \E disk \in DiskOutcomes(<<record>>) :
             /\ fs' = SaveScrapingMetadata(fs, folder_path, record, disk)
             /\ IF disk.kind = "ok"
                THEN /\ pc' = "done" /\ exc' = exc
                     /\ ret' = ScrapeText(ScrapeIsBinary, ScrapeFilePath, response, call.url,
                                          call.return_content)
                ELSE pc' = "raised" /\ exc' = "OSError" /\ ret' = ret
    /\ UNCHANGED <<op, arg, tried, items, acc, base64_images, image_links, saved_images,
                   links_result, net, call, response, folder_path>>

----------------------------------------------------------------------------
(* GoogleSearchTool._run and _handle_regular_search *)

SearchParams == IF Truthy(call.params) THEN call.params.v ELSE <<>>     \* params or {}

\* lines 565-579: the request is sent; a RequestException ends the call with the
\* error string, a response goes to the handler of its search type
SearchRequest ==
    /\ op = "search" /\ pc = "start"
    /\ \E resp \in SearchResponses :
          /\ net' = Append(net,
                Request("https://app.scrapingbee.com/api/v1/store/google",
                        SearchRequestParams(call.search, SearchParams),
                        << <<StrV(UserAgent), StrV(LangChain)>> >>, 120))
          /\ response' = resp
          /\ IF TransportFailed(resp)
             THEN pc' = "done" /\ ret' = SearchError(resp) /\ op' = op
             ELSE IF DictGet(SearchParams, SearchType, NoneV) = StrV(Images)
             THEN pc' = "parse" /\ ret' = ret /\ op' = "images"
             ELSE pc' = "folder" /\ ret' = ret /\ op' = op
    /\ UNCHANGED <<arg, exc, tried, items, acc, base64_images, image_links, saved_images,
                   links_result, fs, call, folder_path>>

\* line 681: create_results_folder; nothing catches its OSError
RegularCreateFolder ==
    /\ op = "search" /\ pc = "folder"
    /\ \/ /\ folder_path' = <<call.results_folder, call.now>>
          /\ fs' = MakeDirs(fs, folder_path')
          /\ pc' = "write" /\ exc' = exc
       \/ /\ pc' = "raised" /\ exc' = "OSError"
          /\ UNCHANGED <<fs, folder_path>>
    /\ UNCHANGED <<op, arg, ret, tried, items, acc, base64_images, image_links, saved_images,
                   links_result, net, call, response>>

RegularFilePath == JoinPath(folder_path, RegularFilename(call.search, SearchParams))

\* lines 684-689: the text of the response is written
RegularWriteFile ==
    /\ op = "search" /\ pc = "write"
    /\ \E disk \in DiskOutcomes(<<response.body>>) :
          /\ fs' = WriteFile(fs, RegularFilePath, <<response.body>>, disk)
          /\ IF disk.kind = "ok"
             THEN pc' = "metadata" /\ exc' = exc
             ELSE pc' = "raised" /\ exc' = "OSError"
    /\ UNCHANGED <<op, arg, ret, tried, items, acc, base64_images, image_links, saved_images,
                   links_result, net, call, response, folder_path>>

\* lines 691-713: the metadata record is appended, the results counted, the report
\* returned
RegularSaveMetadata ==
    /\ op = "search" /\ pc = "metadata"
    /\ LET record == MetadataRecord(<<"google_", RegularSearchType(SearchParams), "_search:",
                                      call.search>>,
                                    SearchParams, "search_results",
                                    StrV(RegularFilePath[Len(RegularFilePath)]), call.now)
       IN \E disk \in DiskOutcomes(<<record>>) :
             /\ fs' = SaveScrapingMetadata(fs, folder_path, record, disk)
             /\ IF disk.kind = "ok"
                THEN /\ pc' = "done" /\ exc' = exc
                     /\ ret' = RegularText(call.search, SearchParams, RegularFilePath, response,
                                           call.return_content)
                ELSE pc' = "raised" /\ exc' = "OSError" /\ ret' = ret
    /\ UNCHANGED <<op, arg, tried, items, acc, base64_images, image_links, saved_images,
                   links_result, net, call, response, folder_path>>

----------------------------------------------------------------------------
(* CheckUsageTool._run *)

\* line 736: the text of the response, as it came
UsageText(resp) == StrV([text |-> "{response.text}", detail |-> resp.body])

\* lines 729-739
UsageRequest ==
    /\ op = "usage" /\ pc = "start"
    /\ \E resp \in UsageResponses :
          /\ net' = Append(net,
                Request("https://app.scrapingbee.com/api/v1/usage",
                        << <<StrV(<<"a", "p", "i", "_", "k", "e", "y">>), ApiKey>> >>, <<>>, 30))
          /\ response' = resp
          /\ ret' = IF TransportFailed(resp) THEN UsageError(resp) ELSE UsageText(resp)
    /\ pc' = "done"
    /\ UNCHANGED <<op, arg, exc, tried, items, acc, base64_images, image_links, saved_images,
                   links_result, fs, call, folder_path>>

----------------------------------------------------------------------------
(* One invocation of one tool *)

InitTools ==
    /\ call \in ScrapeCalls \cup SearchCalls \cup {UsageCall}
    /\ op = call.tool
    /\ pc = "start"
    /\ arg = <<>>
    /\ ret = NoneV
    /\ exc = ""
    /\ tried = <<>>
    /\ items = <<>>
    /\ acc = <<>>
    /\ base64_images = <<>>
    /\ image_links = <<>>
    /\ saved_images = <<>>
    /\ links_result = NoneV
    /\ fs = NoFiles
    /\ net = <<>>
    /\ response = NoResponse
    /\ folder_path = <<>>

NextTools ==
    \/ ScrapeRequest \/ ScrapeCreateFolder \/ ScrapeWriteFile \/ ScrapeSaveMetadata
    \/ SearchRequest \/ RegularCreateFolder \/ RegularWriteFile \/ RegularSaveMetadata
    \/ ImagesParse \/ ImagesCreateFolder \/ ImagesBegin \/ ImagesClassifyOne
    \/ ImagesStartSaving \/ ImagesSaveOne \/ ImagesSaveLinks \/ ImagesSaveJson
    \/ ImagesSaveMetadata
    \/ UsageRequest

SpecTools == InitTools /\ [][NextTools]_vars

----------------------------------------------------------------------------
(* Claims about the image search as a whole *)

\* the entries of saved_images that report a failure
FailedEntries == {i \in 1..Len(saved_images) : saved_images[i].result = "Failed to save"}

\* the place of record i of the response among the records classified as base64
Base64Rank(i) == Cardinality({j \in 1..i : IsBase64Image(arg[j].image)})

\* record i of the response was classified as base64 and its save failed
RecordFailed(i) == IsBase64Image(arg[i].image) /\ Base64Rank(i) \in FailedEntries

\* the image list of the response without the records whose save failed
RECURSIVE WithoutFailedFrom(_)
WithoutFailedFrom(i) ==
    IF i > Len(arg) THEN <<>>
    ELSE (IF RecordFailed(i) THEN <<>> ELSE <<arg[i]>>) \o WithoutFailedFrom(i + 1)

ImageSearchCompleted ==
    op = "images" /\ pc = "done" /\ ret.v.text = "Image search complete"

\* C11: when a record classified as base64 fails to be saved, the string the image
\* search returns shows it: it is not the string returned for the same search
\* whose response lacks the failed records.
C11_FailureReported ==
    (ImageSearchCompleted /\ FailedEntries # {}) =>
        ret # ImageSearchText(SelectSeq(saved_images, LAMBDA e : e.result = "Saved"),
                              links_result, ret.v.file, folder_path,
                              [response EXCEPT !.body.images = WithoutFailedFrom(1)],
                              call.return_content)

MetadataPath == <<ResultsFolder, Timestamp, MetadataFilename>>
ImageResultsPath == <<ResultsFolder, Timestamp, ImageResultsFilename(<<"a">>)>>

\* C12: a failure of one image record is confined to it. A step of the save loop
\* always records one entry for its record, a failure entry when the payload does
\* not decode, goes on to the next record, and leaves every other file as it was;
\* once the loop is over every base64 record has its entry, and a search that
\* completes has written the manifest of its links, the JSON results and one
\* metadata record, whatever records failed.
C12_FailureConfined ==
    /\ [][(op = "images" /\ pc = "save" /\ items # <<>>) =>
            /\ pc' = "save"
            /\ items' = Tail(items)
            /\ Len(saved_images') = Len(saved_images) + 1
            /\ saved_images'[Len(saved_images')].result \in {"Saved", "Failed to save"}
            /\ ~B64Decode(CleanB64Data(Head(items).data)).ok
                  => saved_images'[Len(saved_images')].result = "Failed to save"
            /\ \A p \in DOMAIN fs.files :
                  /\ p \in DOMAIN fs'.files
                  /\ fs'.files[p] # fs.files[p] =>
                        /\ saved_images'[Len(saved_images')].error \in {"", "OSError"}
                        /\ p[Len(p)] = ImageFilename(FormatPosition(Head(items).position),
                                           Head(items).title,
                                           ImageFormat(B64Decode(CleanB64Data(Head(items).data)).val.v))
         ]_vars
    /\ []((op = "images" /\ pc \in {"json", "metadata"}) =>
             Len(saved_images) = Len(base64_images))
    /\ [](ImageSearchCompleted =>
             /\ Len(saved_images) = Len(base64_images)
             /\ FileExists(fs, ImageResultsPath)
             /\ fs.files[ImageResultsPath] = ResultsDocument(response)
             /\ FileExists(fs, MetadataPath) /\ Len(fs.files[MetadataPath]) = 1
             /\ links_result.result = "Saved image links" =>
                   fs.files[LinksPath] = ManifestLines(image_links, Timestamp))

\* a completed search whose first base64 record failed and whose second was saved
C12_Witness ==
    /\ ImageSearchCompleted
    /\ Len(saved_images) = 2
    /\ saved_images[1].result = "Failed to save" /\ saved_images[2].result = "Saved"
    /\ FileExists(fs, saved_images[2].path)
    /\ FileExists(fs, ImageResultsPath)
    /\ Len(fs.files[MetadataPath]) = 1

----------------------------------------------------------------------------
(* Claims about the requests and the results of the tools *)

Absent == [t |-> "absent", v |-> 0]
GivenHeaders == IF call.headers.t = "none" THEN <<>> ELSE call.headers.v

\* C16: the scrape request carries User-Agent: LangChain and, for every custom
\* header (name, value), Spb-<name>: value, and nothing else; forward_headers is
\* true in the query when there is a custom header, and otherwise is what the
\* caller passed (or absent).
C16_RequestHeaders ==
    (call.tool = "scrape" /\ net # <<>>) =>
        LET sent == net[1]
        IN /\ DictGet(sent.headers, UserAgent, Absent) = StrV(LangChain)
           /\ \A i \in 1..Len(GivenHeaders) :
                 DictGet(sent.headers, <<"S", "p", "b", "-">> \o GivenHeaders[i][1].v, Absent)
                     = GivenHeaders[i][2]
           /\ Len(sent.headers) = Len(GivenHeaders) + 1
           /\ IF GivenHeaders # <<>>
              THEN DictGet(sent.params, ForwardHeaders, Absent) = BoolV(TRUE)
              ELSE DictGet(sent.params, ForwardHeaders, Absent)
                       = DictGet(ScrapeParams, ForwardHeaders, Absent)

\* two custom headers, and forward_headers passed as False by the caller
C16_Witness ==
    /\ call.tool = "scrape" /\ Len(net) = 1
    /\ Len(GivenHeaders) = 2
    /\ DictGet(net[1].params, ForwardHeaders, Absent) = BoolV(TRUE)

TransportFailure == response.status \in {"http error", "no response"}
ErrorTexts ==
    {"Error: Request failed. Details:", "Error during Google Search API call:",
     "Error checking usage:"}

\* C17: a transport failure ends the invocation at once, in all three tools: one
\* outbound call and no more, no directory, no file, no metadata record, and an
\* error string is returned, not an exception raised.
C17_TransportFailureEndsCall ==
    (call.tool \in {"scrape", "search", "usage"}) =>
        /\ Len(net) <= 1
        /\ TransportFailure =>
              /\ Len(net) = 1
              /\ pc = "done"
              /\ IsStr(ret) /\ ret.v.text \in ErrorTexts
              /\ fs = NoFiles /\ folder_path = <<>>

\* the search tool has returned the error string of a failed request
C17_Witness ==
    /\ call.tool = "search" /\ TransportFailure /\ pc = "done"
    /\ ret.v.text = "Error during Google Search API call:"
    /\ Len(net) = 1 /\ fs = NoFiles

\* C18: the detail in the error string of a transport failure never exceeds the
\* cap, in every tool.
C18_ErrorDetailCapped ==
    (call.tool \in {"scrape", "search", "usage"} /\ TransportFailure /\ pc = "done") =>
        Len(ret.v.detail) <= ErrorDetailCap

\* C19: every invocation ends by returning a string; no exception leaves the tool.
C19_AlwaysReturnsString ==
    (call.tool \in {"scrape", "search", "usage"}) =>
        /\ pc # "raised"
        /\ pc = "done" => IsStr(ret)

SuccessTexts ==
    {"Binary content saved and processed", "Binary content saved successfully",
     "Text content saved and loaded", "Text content saved successfully",
     "Search complete", "Image search complete", "Image search complete but no results found"}

\* C20: a scrape or search that got a successful response and reports its result
\* has created the output directory, written the result file into it and appended
\* exactly one record to the directory's metadata log.
C20_SuccessLeavesArtifacts ==
    (call.tool \in {"scrape", "search"} /\ pc = "done" /\ ret.v.text \in SuccessTexts) =>
        /\ OutputFolder \in fs.dirs
        /\ FileExists(fs, ret.v.file)
        /\ Slice(ret.v.file, 1, 2) = OutputFolder
        /\ FileExists(fs, MetadataPath)
        /\ Len(fs.files[MetadataPath]) = 1

----------------------------------------------------------------------------
(* Claims about what the tools do with a successful response *)

ScrapeSucceeded == call.tool = "scrape" /\ pc = "done" /\ response.status = "ok"

ScreenshotParams ==
    { <<"s", "c", "r", "e", "e", "n", "s", "h", "o", "t">>,
      <<"s", "c", "r", "e", "e", "n", "s", "h", "o", "t", "_", "f", "u", "l", "l", "_", "p", "a", "g", "e">>,
      <<"s", "c", "r", "e", "e", "n", "s", "h", "o", "t", "_", "s", "e", "l", "e", "c", "t", "o", "r">> }

\* the response of the finished scrape is one the claim calls binary
BinaryResponse ==
    \/ \E sub \in {<<"i", "m", "a", "g", "e", "/">>,
                   <<"a", "p", "p", "l", "i", "c", "a", "t", "i", "o", "n", "/", "p", "d", "f">>,
                   <<"o", "c", "t", "e", "t", "-", "s", "t", "r", "e", "a", "m">>} :
          Contains(response.content_type, sub)
    \/ \E k \in ScreenshotParams : Truthy(DictGet(ScrapeParams, k, NoneV))

ResultReported ==
    /\ call.tool \in {"scrape", "search"} /\ pc = "done" /\ response.status = "ok"
    /\ ret.v.text \in SuccessTexts

C23_ParseErrorLabelled ==
    (call.tool = "search" /\ pc = "done" /\ response.status = "ok"
        /\ response.body.json = "invalid") =>
        ret = ImageSearchParseError

----------------------------------------------------------------------------
(* Claims about the request parameters and the places of the files *)

SentParam(key) == DictGet(net[1].params, key, Absent)

\* C26: the api_key of the request is the tool's key, and its url (scrape) or
\* search (Google search) is the argument of the call, whatever params holds.
C26_KeyAndTargetKept ==
    (call.tool \in {"scrape", "search"} /\ net # <<>>) =>
        /\ SentParam(<<"a", "p", "i", "_", "k", "e", "y">>) = ApiKey
        /\ call.tool = "scrape" => SentParam(<<"u", "r", "l">>) = StrV(call.url)
        /\ call.tool = "search" =>
              SentParam(<<"s", "e", "a", "r", "c", "h">>) = StrV(call.search)

\* the path names a file directly in the folder
InsideFolder(path, folder) ==
    /\ Len(path) = Len(folder) + 1
    /\ Slice(path, 1, Len(folder)) = folder
    /\ ~Contains(path[Len(path)], <<"/">>)
    /\ path[Len(path)] \notin {<<>>, <<".">>, <<".", ".">>}

\* C27: every file of the invocation lies inside results_folder/<timestamp>/.
C27_FilesInsideFolder ==
    (call.tool \in {"scrape", "search"}) =>
        \A p \in DOMAIN fs.files : InsideFolder(p, <<call.results_folder, call.now>>)

\* the image files in the output directory: every file but the JSON results, the
\* manifest and the metadata log
ImageFilesOnDisk ==
    {p \in DOMAIN fs.files :
        /\ Slice(p, 1, Len(folder_path)) = folder_path
        /\ p \notin {ImageResultsPath, LinksPath, MetadataPath}}

\* C28: after an image search in which every save was reported as saved, the
\* output directory holds as many image files as the summary reports.
C28_FilesMatchSavedCount ==
    (ImageSearchCompleted /\ FailedEntries = {}) =>
        Cardinality(ImageFilesOnDisk) = ret.v.saved

----------------------------------------------------------------------------
(* Claims about the persister's format and its agreement with the classifier *)

\* C25: bytes that start with RIFF are saved as webp exactly when they carry WEBP
\* at bytes 8 to 11; no other bytes are saved as webp.
C25_WebpOnlyAtOffset ==
    (op = "persist" /\ pc = "done" /\ ret.v.result = "Saved") =>
        LET image_bytes == B64Decode(CleanB64Data(arg.image_data)).val.v
            filename == ret.v.path[Len(ret.v.path)]
        IN EndsWith(filename, <<".", "w", "e", "b", "p">>)
               <=> (Slice(image_bytes, 1, 4) = Riff /\ Slice(image_bytes, 9, 12) = Webp)

\* C30: a string without a data-URI prefix that the classifier accepts is never a
\* decode failure of the persister: whatever the disk does, the persister saves it
\* or fails on the file, not on the decoding.
C30_ClassifierPersisterAgree ==
    (op = "classify" /\ pc = "done" /\ ~IsDataUri(arg.v) /\ ret = BoolV(TRUE)) =>
        \A disk \in PersistOutcomes(arg.v) :
            LET r == SaveBase64Image(arg.v, OutputFolder, <<"0", "1">>, <<"a">>, NoFiles, disk)
            IN /\ r.error \in {"", "OSError"}
               /\ disk.kind = "ok" => r.result = "Saved"

\* an accepted string that needed its whitespace removed and its padding added
C30_Witness ==
    /\ op = "classify" /\ pc = "done" /\ ~IsDataUri(arg.v) /\ ret = BoolV(TRUE)
    /\ tried = <<"decode">>
    /\ Contains(arg.v, <<Space>>)
    /\ Len(RemoveWhitespace(StripHeader(arg.v))) % 4 # 0
    /\ SaveBase64Image(arg.v, OutputFolder, <<"0", "1">>, <<"a">>, NoFiles,
                       [kind |-> "ok", n |-> 1]).result = "Saved"

----------------------------------------------------------------------------
(* Two invocations at once *)

\* Two invocations run in separate threads or processes on one file system; each
\* has received its response and goes through the steps that touch the disk:
\* create_results_folder, the open and the write of the result file, the append of
\* the metadata record. The disk does not fail here.

Timestamp2 == <<"T", "2">>
Invocations == {1, 2}

\* a text scrape or a web search; invocation i gets a body of its own
PairCalls(i) ==
    { [tool |-> "scrape", url |-> Https \o u, params |-> NoneV, headers |-> NoneV,
       results_folder |-> ResultsFolder, custom_filename |-> c, return_content |-> FALSE,
       now |-> t] :
        u \in {<<"a">>, <<"e">>}, c \in {NoneV, StrV(<<"/", "x">>)},
        t \in (IF i = 1 THEN {Timestamp} ELSE {Timestamp, Timestamp2}) }
    \cup
    { [tool |-> "search", search |-> <<"a">>, params |-> NoneV,
       results_folder |-> ResultsFolder, return_content |-> FALSE, now |-> t] :
        t \in (IF i = 1 THEN {Timestamp} ELSE {Timestamp, Timestamp2}) }

PairResponse(c, i) ==
    [status |-> "ok", content_type |-> TextHtml, message |-> <<>>,
     body |-> IF c.tool = "scrape"
              THEN (IF i = 1 THEN <<"o", "n", "e">> ELSE <<"t", "w">>)
              ELSE [json |-> "object", images |-> <<>>, count |-> i]]

\* lines 364-368 and 685-686: the path of the result file of invocation i
PairFilePath(i) ==
    JoinPath(folder_path[i],
             IF call[i].tool = "scrape"
             THEN ScrapeFilename(call[i].url, call[i].custom_filename,
                                 response[i].content_type, FALSE)
             ELSE RegularFilename(call[i].search, <<>>))

\* lines 371 and 689: what invocation i writes
PairData(i) == IF call[i].tool = "scrape" THEN response[i].body ELSE <<response[i].body>>

\* lines 373 and 691: the metadata record of invocation i
PairRecord(i) ==
    LET filename == StrV(PairFilePath(i)[Len(PairFilePath(i))])
    IN IF call[i].tool = "scrape"
       THEN MetadataRecord(call[i].url, call[i].params, "text", filename, call[i].now)
       ELSE MetadataRecord(<<"google_", RegularSearchType(<<>>), "_search:", call[i].search>>,
                           <<>>, "search_results", filename, call[i].now)

\* a write at the start of a file that another descriptor may have filled since
\* this one was opened: the data replaces the first Len(data) items
WriteAtStart(f, path, data) ==
    [f EXCEPT !.files = (path :> (data \o Slice(@[path], Len(data) + 1, Len(@[path])))) @@ @]

\* create_results_folder, lines 116-118
PairCreateFolder(i) ==
    /\ op = "pair" /\ pc[i] = "folder"
    /\ folder_path' = [folder_path EXCEPT ![i] = <<call[i].results_folder, call[i].now>>]
    /\ fs' = MakeDirs(fs, folder_path'[i])
    /\ pc' = [pc EXCEPT ![i] = "open"]
    /\ UNCHANGED <<op, arg, ret, exc, tried, items, acc, base64_images, image_links,
                   saved_images, links_result, net, call, response>>

\* lines 370 and 688: open(file_path, 'w') creates or empties the file
PairOpenFile(i) ==
    /\ op = "pair" /\ pc[i] = "open"
    /\ fs' = Truncate(fs, PairFilePath(i))
    /\ tried' = Append(tried, [who |-> i, path |-> PairFilePath(i)])
    /\ pc' = [pc EXCEPT ![i] = "write"]
    /\ UNCHANGED <<op, arg, ret, exc, items, acc, base64_images, image_links,
                   saved_images, links_result, net, call, response, folder_path>>

\* lines 371 and 689: the text reaches the file when the with block closes it
PairWriteFile(i) ==
    /\ op = "pair" /\ pc[i] = "write"
    /\ fs' = WriteAtStart(fs, PairFilePath(i), PairData(i))
    /\ pc' = [pc EXCEPT ![i] = "metadata"]
    /\ UNCHANGED <<op, arg, ret, exc, tried, items, acc, base64_images, image_links,
                   saved_images, links_result, net, call, response, folder_path>>

\* lines 373-393 and 691-713: the record is appended to the log of the folder and
\* the report returned
PairSaveMetadata(i) ==
    /\ op = "pair" /\ pc[i] = "metadata"
    /\ fs' = SaveScrapingMetadata(fs, folder_path[i], PairRecord(i),
                                  [kind |-> "ok", n |-> 1])
    /\ tried' = Append(tried, [who |-> i, path |-> JoinPath(folder_path[i], MetadataFilename)])
    /\ ret' = [ret EXCEPT ![i] =
                 IF call[i].tool = "scrape"
                 THEN ScrapeText(FALSE, PairFilePath(i), response[i], call[i].url,
                                 call[i].return_content)
                 ELSE RegularText(call[i].search, <<>>, PairFilePath(i), response[i],
                                  call[i].return_content)]
    /\ pc' = [pc EXCEPT ![i] = "done"]
    /\ UNCHANGED <<op, arg, exc, items, acc, base64_images, image_links,
                   saved_images, links_result, net, call, response, folder_path>>

InitPair ==
    /\ op = "pair"
    /\ call \in {<<c1, c2>> : c1 \in PairCalls(1), c2 \in PairCalls(2)}
    /\ response = [i \in Invocations |-> PairResponse(call[i], i)]
    /\ pc = [i \in Invocations |-> "folder"]
    /\ folder_path = [i \in Invocations |-> <<>>]
    /\ ret = [i \in Invocations |-> NoneV]
    /\ arg = <<>>
    /\ exc = ""
    /\ tried = <<>>
    /\ items = <<>>
    /\ acc = <<>>
    /\ base64_images = <<>>
    /\ image_links = <<>>
    /\ saved_images = <<>>
    /\ links_result = NoneV
    /\ fs = NoFiles
    /\ net = <<>>

NextPair ==
    \E i \in Invocations :
        \/ PairCreateFolder(i)
        \/ PairOpenFile(i)
        \/ PairWriteFile(i)
        \/ PairSaveMetadata(i)

SpecPair == InitPair /\ [][NextPair]_vars

PairDone == op = "pair" /\ \A i \in Invocations : pc[i] = "done"

\* C24: two invocations whose timestamps differ use different output directories,
\* and neither opens or appends to a file the other has written.
C24_NoSharedFiles ==
    (op = "pair" /\ call[1].now # call[2].now) =>
        /\ (folder_path[1] # <<>> /\ folder_path[2] # <<>>) => folder_path[1] # folder_path[2]
        /\ \A m, n \in 1..Len(tried) :
              tried[m].who # tried[n].who => tried[m].path # tried[n].path

\* C29: two invocations with the same timestamp and base folder both keep their
\* output: once both are done, the result file of each holds what it wrote and the
\* metadata log of the shared directory holds a record for each.
C29_BothOutputsKept ==
    (PairDone /\ call[1].now = call[2].now /\ call[1].results_folder = call[2].results_folder) =>
        /\ \A i \in Invocations : fs.files[ret[i].v.file] = PairData(i)
        /\ Len(fs.files[MetadataPath]) = 2
        /\ \A i \in Invocations :
              \E k \in 1..2 : fs.files[MetadataPath][k] = PairRecord(i)

====
